---- MODULE Spec2Model ----
(***************************************************************************)
(* A model of the Cambridge Assembly emulator core (src/core): the         *)
(* two-pass parser at token level, the CPU / memory register model with    *)
(* its normalization, the opcode executors, and run_program's              *)
(* fetch-execute loop with its trace and its result.                       *)
(*                                                                         *)
(* Python's None is modelled as the empty sequence and a present value x   *)
(* as <<x>>; characters are modelled by their code points.                 *)
(***************************************************************************)
EXTENDS Integers, Sequences, FiniteSets, TLC

VARIABLES
    program_text,    \* run_program argument: the source, a sequence of lines
    input_text,      \* run_program argument: sequence of character codes
    caller_options,  \* value of the options argument when run_program is called
    options,         \* the RunOptions object (trace_watch is mutated by a run)
    pc_run,          \* position inside run_program
    cpu,             \* CPU: acc, ix, pc, flag, halted
    memory,          \* Memory._data, a function on 0..size-1
    io_buffer,       \* IOBuffer: _input_pos, _output, last_in_code, last_out_code
    program,         \* ParsedProgram (after a successful parse)
    steps_executed,
    trace_rows,
    current_instr,   \* Optional[Instruction]
    result,          \* Optional[RunResult]: <<r>> once run_program returned
    escaped          \* Optional[type]: <<t>> once an exception left run_program

vars == <<program_text, input_text, caller_options, options, pc_run, cpu, memory, io_buffer,
          program, steps_executed, trace_rows, current_instr, result, escaped>>

----------------------------------------------------------------------------
(* Bounds of the model *)

MaxSteps == 5        \* options.max_steps ranges over 0..MaxSteps
MemSize == 8         \* options.memory_size
MaxLines == 2        \* length of the generated programs
MaxWordBits == 29    \* widest word the normalize runs are made with

(* Program constants *)

DefaultStartAddress == 200
ByteMask == 255

None == <<>>
Some(x) == <<x>>
Val(o) == o[1]

Pow2(n) == 2 ^ n

----------------------------------------------------------------------------
(* cpu.py / memory.py: normalization *)

\* value & mask (mask = (1 << word_bits) - 1) for a Python int of either sign
MaskTo(value, word_bits) == value % Pow2(word_bits)

MaxVal(word_bits, signed) ==
    IF signed THEN Pow2(word_bits - 1) - 1 ELSE Pow2(word_bits) - 1

MinVal(word_bits, signed) ==
    IF signed THEN 0 - Pow2(word_bits - 1) ELSE 0

\* a normalize whose signed wrap is off by one
normalize_off_by_one(value, word_bits, signed) ==
    LET masked == MaskTo(value, word_bits)
    IN  IF signed /\ masked > MaxVal(word_bits, signed)
        THEN masked - Pow2(word_bits) + 1
        ELSE masked

\* a normalize that saturates at the ends of the range instead of wrapping
normalize_saturating(value, word_bits, signed) ==
    IF value > MaxVal(word_bits, signed) THEN MaxVal(word_bits, signed)
    ELSE IF value < MinVal(word_bits, signed) THEN MinVal(word_bits, signed)
    ELSE value

normalize(value, word_bits, signed) ==
    LET masked == MaskTo(value, word_bits)
    IN  IF signed /\ masked > MaxVal(word_bits, signed)
        THEN masked - Pow2(word_bits)
        ELSE masked

\* a Memory.normalize that stores the value as given
mem_normalize_unmasked(value, word_bits, signed) == value

\* Memory.normalize is a textual copy of CPU.normalize
mem_normalize(value, word_bits, signed) ==
    LET masked == MaskTo(value, word_bits)
    IN  IF signed /\ masked > MaxVal(word_bits, signed)
        THEN masked - Pow2(word_bits)
        ELSE masked

InRange(v, word_bits, signed) ==
    /\ v >= MinVal(word_bits, signed)
    /\ v <= MaxVal(word_bits, signed)

\* Python's &, | and ^ on non-negative integers, bit by bit
RECURSIVE BitOp(_, _, _, _)
BitOp(kind, a, b, bits) ==
    IF bits = 0 THEN 0
    ELSE LET x == a % 2
             y == b % 2
             z == CASE kind = "AND" -> IF x = 1 /\ y = 1 THEN 1 ELSE 0
                    [] kind = "OR"  -> IF x = 1 \/ y = 1 THEN 1 ELSE 0
                    [] kind = "XOR" -> IF x # y THEN 1 ELSE 0
         IN  z + 2 * BitOp(kind, a \div 2, b \div 2, bits - 1)

----------------------------------------------------------------------------
(* parser.py: the source text at token level.                              *)
(* A line is [addr, label, k, op, form, v, s]:                             *)
(*   addr   the explicit address prefix, None when the line has none       *)
(*   label  the label prefix NAME:, None when the line has none            *)
(*   k      what remains: "blank" (nothing on the line but a comment),     *)
(*          "empty" (address or label only), "data" (numeric literal v),   *)
(*          "badbin" (B-prefixed literal with malformed bits), "instr"     *)
(*   op     the opcode token as written                                    *)
(*   form   the operand token: "none", "imm" (#literal, value v),          *)
(*          "immbad" (# then a non-numeric text), "binbad" (# then a       *)
(*          malformed binary literal), "name" (bare word s), "num"         *)
(*          (bare decimal, value v)                                        *)

VALID_OPCODES ==
    {"LDM", "LDD", "LDI", "LDX", "LDR", "MOV", "STO", "END", "IN", "OUT",
     "ADD", "SUB", "INC", "DEC", "CMP", "CMI", "JMP", "JPE", "JPN", "LSL",
     "LSR", "AND", "OR", "XOR"}

SHIFT_OPCODES == {"LSL", "LSR"}
BITWISE_OPCODES == {"AND", "OR", "XOR"}

OPCODES_WITH_OPERAND ==
    {"LDM", "LDD", "LDI", "LDX", "LDR", "STO", "ADD", "SUB", "CMP", "CMI",
     "JMP", "JPE", "JPN", "LSL", "LSR", "AND", "OR", "XOR"}

OPCODES_WITH_REGISTER_OPERAND == {"INC", "DEC", "LDR", "MOV"}

OPCODES_NO_OPERAND == {"IN", "OUT", "END"}

\* str.upper() on the words the programs of the model use
Upper(s) ==
    CASE s = "loop" -> "LOOP"
      [] s = "x"    -> "X"
      [] s = "acc"  -> "ACC"
      [] s = "ix"   -> "IX"
      [] s = "ldm"  -> "LDM"
      [] s = "end"  -> "END"
      [] OTHER      -> s

ParseErrorTypes ==
    {"ParseError", "UnknownOpcode", "InvalidOperand", "AddressConflict"}

\* the error classes parser.py and instructions.py import from errors.py
\* that errors.py does not define: error kinds of the same family
UndeclaredErrorTypes ==
    {"InvalidBinaryLiteral", "OperandTypeError", "InvalidShiftAmount"}

RuntimeErrorTypes ==
    {"CASMRuntimeError", "MemoryAccessError", "StepLimitExceeded",
     "JumpWithoutCompare", "InputUnderflow"}

\* the exception classes run_program's "except CASMError" catches
IsCASMError(type) ==
    type \in ParseErrorTypes \cup RuntimeErrorTypes \cup UndeclaredErrorTypes

ParseFail(type, line_no) ==
    Some([type |-> type, source_line_no |-> Some(line_no)])

\* raise ParseError("Program contains no instructions"): no source line
EmptyProgramFail == Some([type |-> "ParseError", source_line_no |-> None])

\* first pass of parse_program: detects the address mode; its duplicate
\* check looks a label up in resolved_labels, which holds only the labels
\* passed in by the caller (none) and is not extended during this pass
first_pass_line(line, i, acc) ==
    [acc EXCEPT
        !.has_explicit_addresses = @ \/ line.addr # None,
        !.has_sequential_addresses = @ \/ line.addr = None,
        !.err = IF line.label # None
                   /\ Upper(Val(line.label)) \in acc.resolved_labels
                THEN ParseFail("AddressConflict", i) ELSE @]

RECURSIVE first_pass(_, _, _)
first_pass(lines, i, acc) ==
    IF i > Len(lines) \/ acc.err # None THEN acc
    ELSE IF lines[i].k = "blank" THEN first_pass(lines, i + 1, acc)
    ELSE first_pass(lines, i + 1, first_pass_line(lines[i], i, acc))

\* _parse_instruction, lines 290-335: the operand's kind, text and value
operand_is_register(line) ==
    line.form = "name" /\ Upper(line.s) \in {"ACC", "IX"}

operand_type_of(line) ==
    IF line.form = "none" THEN "none"
    ELSE IF line.form \in {"imm", "immbad", "binbad"} THEN "immediate"
    ELSE IF operand_is_register(line) THEN "register"
    ELSE "direct"

operand_str_of(line) ==
    IF line.form = "none" THEN None
    ELSE IF operand_is_register(line) THEN Some(Upper(line.s))
    ELSE Some(line.s)

operand_value_of(line, labels) ==
    IF line.form \in {"imm", "num"} THEN Some(line.v)
    ELSE IF line.form = "name" /\ ~operand_is_register(line)
            /\ Upper(line.s) \in DOMAIN labels
         THEN Some(labels[Upper(line.s)])
    ELSE None

\* _parse_instruction, lines 353-380: the elif chain that checks the operand
\* kind of an opcode that requires an operand
operand_kind_error(opcode, operand_type, operand_str, line_no) ==
    IF opcode \in {"LDM", "LDR"} /\ operand_type = "immediate" THEN None
    ELSE IF opcode = "LDR" /\ operand_type = "register"
            /\ operand_str = Some("ACC") THEN None
    ELSE IF opcode \in {"ADD", "SUB", "CMP"}
            /\ operand_type \in {"immediate", "direct"} THEN None
    ELSE IF opcode \in BITWISE_OPCODES
         THEN IF operand_type \notin {"immediate", "direct"}
              THEN ParseFail("OperandTypeError", line_no) ELSE None
    ELSE IF opcode \in SHIFT_OPCODES
         THEN IF operand_type # "immediate"
              THEN ParseFail("OperandTypeError", line_no) ELSE None
    ELSE IF opcode \in {"LDD", "LDI", "LDX", "STO", "CMI", "JMP", "JPE", "JPN"}
         THEN IF operand_type # "direct"
              THEN ParseFail("InvalidOperand", line_no) ELSE None
    ELSE None

\* _parse_instruction, lines 279-395: the error it raises, None when it
\* returns the instruction
instruction_error(form, opcode, operand_type, operand_str, line_no) ==
    IF opcode \notin VALID_OPCODES THEN ParseFail("UnknownOpcode", line_no)
    ELSE IF form = "binbad" THEN ParseFail("InvalidBinaryLiteral", line_no)
    ELSE IF form = "immbad"
         THEN IF opcode \in SHIFT_OPCODES
              THEN ParseFail("InvalidShiftAmount", line_no)
              ELSE ParseFail("InvalidOperand", line_no)
    ELSE IF opcode \in OPCODES_NO_OPERAND /\ operand_str # None
         THEN ParseFail("InvalidOperand", line_no)
    ELSE IF opcode \in OPCODES_WITH_OPERAND
            /\ opcode \notin OPCODES_WITH_REGISTER_OPERAND
         THEN IF operand_str = None THEN ParseFail("InvalidOperand", line_no)
              ELSE operand_kind_error(opcode, operand_type, operand_str, line_no)
    ELSE IF opcode \in OPCODES_WITH_REGISTER_OPERAND /\ operand_str # None
            /\ opcode = "MOV" /\ operand_str # Some("IX")
         THEN ParseFail("InvalidOperand", line_no)
    ELSE IF opcode \in OPCODES_WITH_REGISTER_OPERAND /\ operand_str # None
            /\ opcode \in {"INC", "DEC"}
            /\ operand_str \notin {Some("ACC"), Some("IX")}
         THEN ParseFail("InvalidOperand", line_no)
    ELSE None

Instruction(addr, opcode, operand, operand_value, operand_type, line_no, text) ==
    [addr |-> addr, opcode |-> opcode, operand |-> operand,
     operand_value |-> operand_value, operand_type |-> operand_type,
     source_line_no |-> line_no, clean_text |-> text]

\* _parse_instruction: [err, instruction]
parse_instruction(line, addr, line_no, labels) ==
    [err |-> instruction_error(line.form, Upper(line.op), operand_type_of(line),
                               operand_str_of(line), line_no),
     instruction |->
        Instruction(addr, Upper(line.op), operand_str_of(line),
                    operand_value_of(line, labels), operand_type_of(line),
                    line_no, <<line.op, line.form, line.v, line.s>>)]

\* second pass, lines 161-181: the address of line i and the label table
\* after its label prefix is bound
line_addr(line, st) ==
    IF line.addr # None THEN Val(line.addr) ELSE st.current_addr

bind_label(line, addr, labels) ==
    IF line.label # None THEN (Upper(Val(line.label)) :> addr) @@ labels
    ELSE labels

\* a running address that counts lines and ignores the explicit address
advance_addr_counting(has_explicit_addresses, current_addr, addr) ==
    current_addr + 1

\* lines 186-189 and 212-215: the running address after an instruction or an
\* address-only line
advance_addr(has_explicit_addresses, current_addr, addr) ==
    IF ~has_explicit_addresses THEN current_addr + 1 ELSE addr + 1

\* a second pass that stores an instruction without looking at the table
parse_line_overwriting(line, i, has_explicit_addresses, st, addr, parsed) ==
    IF line.k = "empty"
    THEN [st EXCEPT !.current_addr =
                        advance_addr(has_explicit_addresses, st.current_addr, addr)]
    ELSE IF line.k = "badbin"
    THEN [st EXCEPT !.err = ParseFail("InvalidBinaryLiteral", i)]
    ELSE IF line.k = "data"
    THEN [st EXCEPT !.initial_memory = (addr :> line.v) @@ @,
                    !.data_order = IF addr \in DOMAIN st.initial_memory
                                   THEN @ ELSE Append(@, addr),
                    !.current_addr = addr + 1]
    ELSE IF parsed.err # None THEN [st EXCEPT !.err = parsed.err]
    ELSE [st EXCEPT !.instructions = (addr :> parsed.instruction) @@ @,
                    !.order = IF addr \in DOMAIN st.instructions
                              THEN @ ELSE Append(@, addr),
                    !.current_addr =
                        advance_addr(has_explicit_addresses, st.current_addr, addr)]

\* a second pass in which a label-only line takes no address
parse_line_label_free(line, i, has_explicit_addresses, st, addr, parsed) ==
    IF line.k = "empty"
    THEN st
    ELSE IF line.k = "badbin"
    THEN [st EXCEPT !.err = ParseFail("InvalidBinaryLiteral", i)]
    ELSE IF line.k = "data"
    THEN [st EXCEPT !.initial_memory = (addr :> line.v) @@ @,
                    !.data_order = IF addr \in DOMAIN st.initial_memory
                                   THEN @ ELSE Append(@, addr),
                    !.current_addr = addr + 1]
    ELSE IF parsed.err # None THEN [st EXCEPT !.err = parsed.err]
    ELSE IF addr \in DOMAIN st.instructions
    THEN [st EXCEPT !.err = ParseFail("AddressConflict", i)]
    ELSE [st EXCEPT !.instructions = (addr :> parsed.instruction) @@ @,
                    !.order = Append(@, addr),
                    !.current_addr =
                        advance_addr(has_explicit_addresses, st.current_addr, addr)]

\* second pass, lines 183-215, for one line: the parser state after it
parse_line(line, i, has_explicit_addresses, st, addr, parsed) ==
    IF line.k = "empty"
    THEN [st EXCEPT !.current_addr =
                        advance_addr(has_explicit_addresses, st.current_addr, addr)]
    ELSE IF line.k = "badbin"
    THEN [st EXCEPT !.err = ParseFail("InvalidBinaryLiteral", i)]
    ELSE IF line.k = "data"
    THEN [st EXCEPT !.initial_memory = (addr :> line.v) @@ @,
                    !.data_order = IF addr \in DOMAIN st.initial_memory
                                   THEN @ ELSE Append(@, addr),
                    !.current_addr = addr + 1]
    ELSE IF parsed.err # None THEN [st EXCEPT !.err = parsed.err]
    ELSE IF addr \in DOMAIN st.instructions
    THEN [st EXCEPT !.err = ParseFail("AddressConflict", i)]
    ELSE [st EXCEPT !.instructions = (addr :> parsed.instruction) @@ @,
                    !.order = Append(@, addr),
                    !.current_addr =
                        advance_addr(has_explicit_addresses, st.current_addr, addr)]

\* second pass of parse_program, lines 161-215
RECURSIVE second_pass(_, _, _, _)
second_pass(lines, i, has_explicit_addresses, st) ==
    IF i > Len(lines) \/ st.err # None THEN st
    ELSE IF lines[i].k = "blank"
    THEN second_pass(lines, i + 1, has_explicit_addresses, st)
    ELSE second_pass(lines, i + 1, has_explicit_addresses,
            parse_line(lines[i], i, has_explicit_addresses,
                [st EXCEPT !.labels = bind_label(lines[i], line_addr(lines[i], st), @)],
                line_addr(lines[i], st),
                parse_instruction(lines[i], line_addr(lines[i], st), i,
                    bind_label(lines[i], line_addr(lines[i], st), st.labels))))

\* a third pass that leaves an operand naming no label as it is
resolve_operand_lenient(st, addr, instr) ==
    IF instr.operand # None /\ instr.operand_value = None
       /\ instr.operand_type = "direct"
       /\ Upper(Val(instr.operand)) \in DOMAIN st.labels
    THEN [st EXCEPT !.instructions[addr].operand_value =
                        Some(st.labels[Upper(Val(instr.operand))])]
    ELSE st

\* third pass, lines 222-231, for one instruction
resolve_operand(st, addr, instr) ==
    IF instr.operand # None /\ instr.operand_value = None
       /\ instr.operand_type = "direct"
    THEN IF Upper(Val(instr.operand)) \in DOMAIN st.labels
         THEN [st EXCEPT !.instructions[addr].operand_value =
                            Some(st.labels[Upper(Val(instr.operand))])]
         ELSE [st EXCEPT !.err = ParseFail("InvalidOperand", instr.source_line_no)]
    ELSE st

\* third pass of parse_program: label references left open, in the
\* instruction table's insertion order
RECURSIVE third_pass(_, _)
third_pass(st, j) ==
    IF j > Len(st.order) \/ st.err # None THEN st
    ELSE third_pass(resolve_operand(st, st.order[j], st.instructions[st.order[j]]),
                    j + 1)

EmptyMap == [x \in {} |-> 0]

SetMin(S) == CHOOSE x \in S : \A y \in S : x <= y
SetMax(S) == CHOOSE x \in S : \A y \in S : x >= y

\* lines 217-218: a program without instructions is rejected
check_not_empty(st) ==
    IF st.err = None /\ DOMAIN st.instructions = {}
    THEN [st EXCEPT !.err = EmptyProgramFail]
    ELSE st

\* lines 233-248: the ParsedProgram, or the error that was raised
parse_outcome(p1, st) ==
    IF p1.err # None THEN [err |-> p1.err, program |-> None]
    ELSE IF st.err # None THEN [err |-> st.err, program |-> None]
    ELSE [err |-> None,
          program |-> Some(
            [instructions |-> st.instructions,
             labels |-> st.labels,
             initial_memory |-> st.initial_memory,
             data_order |-> st.data_order,
             start_address |-> SetMin(DOMAIN st.instructions),
             end_address |-> SetMax(DOMAIN st.instructions)])]

ParserState(start_address) ==
    [instructions |-> EmptyMap, order |-> <<>>, initial_memory |-> EmptyMap,
     data_order |-> <<>>, labels |-> EmptyMap, current_addr |-> start_address,
     err |-> None]

FirstPassState ==
    [has_explicit_addresses |-> FALSE, has_sequential_addresses |-> FALSE,
     resolved_labels |-> {}, err |-> None]

run_passes(lines, start_address, p1) ==
    parse_outcome(p1,
        third_pass(
            check_not_empty(
                second_pass(lines, 1, p1.has_explicit_addresses,
                            ParserState(start_address))),
            1))

\* parse_program(text, start_address): [err, program]
parse_program(lines, start_address) ==
    run_passes(lines, start_address, first_pass(lines, 1, FirstPassState))

----------------------------------------------------------------------------
(* cpu.py, memory.py, instructions.py: the register model and the IOBuffer *)

set_acc(c, value) == [c EXCEPT !.acc = normalize(value, c.word_bits, c.signed)]
set_ix(c, value) == [c EXCEPT !.ix = normalize(value, c.word_bits, c.signed)]

\* Memory._check_bounds: the exception it raises for addr, None when in bounds
check_bounds(m, addr) ==
    IF addr < 0 \/ addr >= m.size THEN Some("MemoryAccessError") ELSE None

\* Memory.read on an Optional address: [exc, v]; comparing None with 0 is
\* a TypeError
mem_read(m, oaddr) ==
    IF oaddr = None THEN [exc |-> Some("TypeError"), v |-> 0]
    ELSE IF check_bounds(m, Val(oaddr)) # None
         THEN [exc |-> check_bounds(m, Val(oaddr)), v |-> 0]
    ELSE [exc |-> None, v |-> m.data[Val(oaddr)]]

\* Memory.write: [exc, m]
mem_write(m, addr, value) ==
    IF check_bounds(m, addr) # None
    THEN [exc |-> check_bounds(m, addr), m |-> m]
    ELSE [exc |-> None,
          m |-> [m EXCEPT !.data[addr] = mem_normalize(value, m.word_bits, m.signed)]]

\* Memory.__init__: zero filled, then the in-range initial values, normalized
memory_init(size, word_bits, signed, initial_values) ==
    [size |-> size, word_bits |-> word_bits, signed |-> signed,
     data |-> [a \in 0..(size - 1) |->
                 IF a \in DOMAIN initial_values
                 THEN mem_normalize(initial_values[a], word_bits, signed)
                 ELSE 0]]

\* Memory.get_watched: the in-range watched addresses and their values
get_watched(m, addresses) ==
    [a \in {addresses[k] : k \in DOMAIN addresses} \cap 0..(m.size - 1) |-> m.data[a]]

\* CPU.__init__
cpu_init(word_bits, signed) ==
    [word_bits |-> word_bits, signed |-> signed, acc |-> 0, ix |-> 0, pc |-> 0,
     flag |-> None, halted |-> FALSE]

\* CPU.get_state
get_state(c) == [acc |-> c.acc, ix |-> c.ix, pc |-> c.pc, flag |-> c.flag]

\* IOBuffer.__init__
io_init == [input_pos |-> 0, output |-> <<>>, last_in_code |-> None,
            last_out_code |-> None]

\* a read that hands out the character under the cursor and leaves the
\* cursor where it is
read_char_keeping_cursor(io, input) ==
    IF io.input_pos >= Len(input)
    THEN [exc |-> Some("InputUnderflow"),
          io |-> [io EXCEPT !.last_in_code = None], code |-> 0]
    ELSE [exc |-> None,
          io |-> [io EXCEPT !.last_in_code = Some(input[io.input_pos + 1])],
          code |-> input[io.input_pos + 1]]

\* IOBuffer.read_char: [exc, io, code]
read_char(io, input) ==
    IF io.input_pos >= Len(input)
    THEN [exc |-> Some("InputUnderflow"),
          io |-> [io EXCEPT !.last_in_code = None], code |-> 0]
    ELSE [exc |-> None,
          io |-> [io EXCEPT !.input_pos = @ + 1,
                            !.last_in_code = Some(input[io.input_pos + 1])],
          code |-> input[io.input_pos + 1]]

\* a write that appends the code as it is
write_char_unmasked(io, code) ==
    [io EXCEPT !.last_out_code = Some(code), !.output = Append(@, code)]

\* IOBuffer.write_char
write_char(io, code) ==
    [io EXCEPT !.last_out_code = Some(code % (ByteMask + 1)),
               !.output = Append(@, code % (ByteMask + 1))]

\* a reset that leaves the last codes in place
reset_io_codes_kept(io) == io

\* IOBuffer.reset_io_codes
reset_io_codes(io) == [io EXCEPT !.last_in_code = None, !.last_out_code = None]

\* what an executor leaves behind: the exception it raised (None when it
\* returned), the state, and the returned new PC
Outcome(exc, c, m, io, new_pc) ==
    [exc |-> exc, cpu |-> c, mem |-> m, io |-> io, new_pc |-> new_pc]

Raise(type, c, m, io) == Outcome(Some(type), c, m, io, None)

execute_ldm(instr, c, m, io) ==
    IF instr.operand_value = None THEN Raise("TypeError", c, m, io)
    ELSE Outcome(None, set_acc(c, Val(instr.operand_value)), m, io, None)

execute_ldd(instr, c, m, io) ==
    LET r == mem_read(m, instr.operand_value)
    IN  IF r.exc # None THEN Raise(Val(r.exc), c, m, io)
        ELSE Outcome(None, set_acc(c, r.v), m, io, None)

\* an LDI that loads the cell the operand names
execute_ldi_direct(instr, c, m, io) ==
    LET r == mem_read(m, instr.operand_value)
    IN  IF r.exc # None THEN Raise(Val(r.exc), c, m, io)
        ELSE Outcome(None, set_acc(c, r.v), m, io, None)

execute_ldi(instr, c, m, io) ==
    LET r1 == mem_read(m, instr.operand_value)
        r2 == mem_read(m, Some(r1.v))
    IN  IF r1.exc # None THEN Raise(Val(r1.exc), c, m, io)
        ELSE IF r2.exc # None THEN Raise(Val(r2.exc), c, m, io)
        ELSE Outcome(None, set_acc(c, r2.v), m, io, None)

\* an LDX that reads the operand address without adding IX
execute_ldx_unindexed(instr, c, m, io) ==
    LET r == mem_read(m, instr.operand_value)
    IN  IF r.exc # None THEN Raise(Val(r.exc), c, m, io)
        ELSE Outcome(None, set_acc(c, r.v), m, io, None)

execute_ldx(instr, c, m, io) ==
    IF instr.operand_value = None THEN Raise("TypeError", c, m, io)
    ELSE LET r == mem_read(m, Some(Val(instr.operand_value) + c.ix))
         IN  IF r.exc # None THEN Raise(Val(r.exc), c, m, io)
             ELSE Outcome(None, set_acc(c, r.v), m, io, None)

execute_ldr(instr, c, m, io) ==
    IF instr.operand_type = "immediate"
    THEN IF instr.operand_value = None THEN Raise("TypeError", c, m, io)
         ELSE Outcome(None, set_ix(c, Val(instr.operand_value)), m, io, None)
    ELSE IF instr.operand = Some("ACC")
         THEN Outcome(None, set_ix(c, c.acc), m, io, None)
    ELSE Outcome(None, c, m, io, None)

execute_mov(instr, c, m, io) == Outcome(None, set_ix(c, c.acc), m, io, None)

execute_sto(instr, c, m, io) ==
    IF instr.operand_value = None THEN Raise("TypeError", c, m, io)
    ELSE LET w == mem_write(m, Val(instr.operand_value), c.acc)
         IN  IF w.exc # None THEN Raise(Val(w.exc), c, m, io)
             ELSE Outcome(None, c, w.m, io, None)

execute_end(instr, c, m, io) ==
    Outcome(None, [c EXCEPT !.halted = TRUE], m, io, None)

execute_in(instr, c, m, io, input) ==
    LET r == read_char(io, input)
    IN  IF r.exc # None THEN Raise(Val(r.exc), c, m, r.io)
        ELSE Outcome(None, set_acc(c, r.code), m, r.io, None)

execute_out(instr, c, m, io) == Outcome(None, c, m, write_char(io, c.acc), None)

\* the value ADD, SUB and CMP take: [exc, v]
arith_operand(instr, m) ==
    IF instr.operand_type = "immediate"
    THEN IF instr.operand_value = None
         THEN [exc |-> Some("TypeError"), v |-> 0]
         ELSE [exc |-> None, v |-> Val(instr.operand_value)]
    ELSE mem_read(m, instr.operand_value)

execute_add(instr, c, m, io) ==
    LET r == arith_operand(instr, m)
    IN  IF r.exc # None THEN Raise(Val(r.exc), c, m, io)
        ELSE Outcome(None, set_acc(c, c.acc + r.v), m, io, None)

execute_sub(instr, c, m, io) ==
    LET r == arith_operand(instr, m)
    IN  IF r.exc # None THEN Raise(Val(r.exc), c, m, io)
        ELSE Outcome(None, set_acc(c, c.acc - r.v), m, io, None)

\* _get_bitwise_operand: [exc, v], v masked to the word width
get_bitwise_operand(instr, c, m) ==
    LET r == arith_operand(instr, m)
    IN  IF r.exc # None THEN r
        ELSE [exc |-> None, v |-> MaskTo(r.v, c.word_bits)]

\* a bitwise executor that combines with AND whatever the opcode
execute_bitwise_and_only(kind, instr, c, m, io) ==
    LET acc_val == MaskTo(c.acc, c.word_bits)
        r == get_bitwise_operand(instr, c, m)
    IN  IF r.exc # None THEN Raise(Val(r.exc), c, m, io)
        ELSE Outcome(None, set_acc(c, BitOp("AND", acc_val, r.v, c.word_bits)),
                     m, io, None)

\* execute_and, execute_or, execute_xor
execute_bitwise(kind, instr, c, m, io) ==
    LET acc_val == MaskTo(c.acc, c.word_bits)
        r == get_bitwise_operand(instr, c, m)
    IN  IF r.exc # None THEN Raise(Val(r.exc), c, m, io)
        ELSE Outcome(None, set_acc(c, BitOp(kind, acc_val, r.v, c.word_bits)),
                     m, io, None)

execute_inc(instr, c, m, io) ==
    IF instr.operand = Some("IX")
    THEN Outcome(None, set_ix(c, c.ix + 1), m, io, None)
    ELSE Outcome(None, set_acc(c, c.acc + 1), m, io, None)

execute_dec(instr, c, m, io) ==
    IF instr.operand = Some("IX")
    THEN Outcome(None, set_ix(c, c.ix - 1), m, io, None)
    ELSE Outcome(None, set_acc(c, c.acc - 1), m, io, None)

\* _get_shift_amount: [exc, v]
get_shift_amount(instr) ==
    IF instr.operand_type # "immediate" \/ instr.operand_value = None
    THEN [exc |-> Some("InvalidShiftAmount"), v |-> 0]
    ELSE IF Val(instr.operand_value) < 0
         THEN [exc |-> Some("InvalidShiftAmount"), v |-> 0]
    ELSE [exc |-> None, v |-> Val(instr.operand_value)]

execute_lsl(instr, c, m, io) ==
    LET r == get_shift_amount(instr)
    IN  IF r.exc # None THEN Raise(Val(r.exc), c, m, io)
        ELSE IF r.v >= c.word_bits THEN Outcome(None, set_acc(c, 0), m, io, None)
        ELSE Outcome(None,
                set_acc(c, MaskTo(MaskTo(c.acc, c.word_bits) * Pow2(r.v), c.word_bits)),
                m, io, None)

\* an LSR that shifts the signed value, keeping its sign
execute_lsr_arithmetic(instr, c, m, io) ==
    LET r == get_shift_amount(instr)
    IN  IF r.exc # None THEN Raise(Val(r.exc), c, m, io)
        ELSE IF r.v >= c.word_bits THEN Outcome(None, set_acc(c, 0), m, io, None)
        ELSE Outcome(None, set_acc(c, c.acc \div Pow2(r.v)), m, io, None)

execute_lsr(instr, c, m, io) ==
    LET r == get_shift_amount(instr)
    IN  IF r.exc # None THEN Raise(Val(r.exc), c, m, io)
        ELSE IF r.v >= c.word_bits THEN Outcome(None, set_acc(c, 0), m, io, None)
        ELSE Outcome(None, set_acc(c, MaskTo(c.acc, c.word_bits) \div Pow2(r.v)),
                     m, io, None)

\* an immediate without a value compares unequal to ACC (acc == None)
execute_cmp(instr, c, m, io) ==
    LET r == arith_operand(instr, m)
    IN  IF instr.operand_type = "immediate" /\ instr.operand_value = None
        THEN Outcome(None, [c EXCEPT !.flag = Some(FALSE)], m, io, None)
        ELSE IF r.exc # None THEN Raise(Val(r.exc), c, m, io)
        ELSE Outcome(None, [c EXCEPT !.flag = Some(c.acc = r.v)], m, io, None)

execute_cmi(instr, c, m, io) ==
    LET r1 == mem_read(m, instr.operand_value)
        r2 == mem_read(m, Some(r1.v))
    IN  IF r1.exc # None THEN Raise(Val(r1.exc), c, m, io)
        ELSE IF r2.exc # None THEN Raise(Val(r2.exc), c, m, io)
        ELSE Outcome(None, [c EXCEPT !.flag = Some(c.acc = r2.v)], m, io, None)

\* a JMP that clears the comparison flag
execute_jmp_clearing_flag(instr, c, m, io) ==
    Outcome(None, [c EXCEPT !.flag = None], m, io, instr.operand_value)

execute_jmp(instr, c, m, io) == Outcome(None, c, m, io, instr.operand_value)

\* a JPE that reads the unset flag as false
execute_jpe_unset_as_false(instr, c, m, io) ==
    IF c.flag # None /\ Val(c.flag) THEN Outcome(None, c, m, io, instr.operand_value)
    ELSE Outcome(None, c, m, io, None)

execute_jpe(instr, c, m, io) ==
    IF c.flag = None THEN Raise("JumpWithoutCompare", c, m, io)
    ELSE IF Val(c.flag) THEN Outcome(None, c, m, io, instr.operand_value)
    ELSE Outcome(None, c, m, io, None)

\* a JPN that jumps when the flag is true
execute_jpn_on_true(instr, c, m, io) ==
    IF c.flag = None THEN Raise("JumpWithoutCompare", c, m, io)
    ELSE IF Val(c.flag) THEN Outcome(None, c, m, io, instr.operand_value)
    ELSE Outcome(None, c, m, io, None)

execute_jpn(instr, c, m, io) ==
    IF c.flag = None THEN Raise("JumpWithoutCompare", c, m, io)
    ELSE IF ~Val(c.flag) THEN Outcome(None, c, m, io, instr.operand_value)
    ELSE Outcome(None, c, m, io, None)

\* execute_instruction: the dispatch over INSTRUCTION_EXECUTORS
execute_instruction(instr, c, m, io, input) ==
    CASE instr.opcode = "LDM" -> execute_ldm(instr, c, m, io)
      [] instr.opcode = "LDD" -> execute_ldd(instr, c, m, io)
      [] instr.opcode = "LDI" -> execute_ldi(instr, c, m, io)
      [] instr.opcode = "LDX" -> execute_ldx(instr, c, m, io)
      [] instr.opcode = "LDR" -> execute_ldr(instr, c, m, io)
      [] instr.opcode = "MOV" -> execute_mov(instr, c, m, io)
      [] instr.opcode = "STO" -> execute_sto(instr, c, m, io)
      [] instr.opcode = "END" -> execute_end(instr, c, m, io)
      [] instr.opcode = "IN"  -> execute_in(instr, c, m, io, input)
      [] instr.opcode = "OUT" -> execute_out(instr, c, m, io)
      [] instr.opcode = "ADD" -> execute_add(instr, c, m, io)
      [] instr.opcode = "SUB" -> execute_sub(instr, c, m, io)
      [] instr.opcode \in BITWISE_OPCODES ->
            execute_bitwise(instr.opcode, instr, c, m, io)
      [] instr.opcode = "INC" -> execute_inc(instr, c, m, io)
      [] instr.opcode = "DEC" -> execute_dec(instr, c, m, io)
      [] instr.opcode = "LSL" -> execute_lsl(instr, c, m, io)
      [] instr.opcode = "LSR" -> execute_lsr(instr, c, m, io)
      [] instr.opcode = "CMP" -> execute_cmp(instr, c, m, io)
      [] instr.opcode = "CMI" -> execute_cmi(instr, c, m, io)
      [] instr.opcode = "JMP" -> execute_jmp(instr, c, m, io)
      [] instr.opcode = "JPE" -> execute_jpe(instr, c, m, io)
      [] instr.opcode = "JPN" -> execute_jpn(instr, c, m, io)

----------------------------------------------------------------------------
(* runner.py: run_program *)

\* CASMError.to_error_info
ErrorInfo(type, step, addr, source_line_no) ==
    [type |-> type, step |-> step, addr |-> addr,
     source_line_no |-> source_line_no]

RunResult(status, output_text, steps, final_state, trace_watch, trace, error) ==
    [status |-> status, output_text |-> output_text, steps_executed |-> steps,
     final_state |-> final_state, trace_watch |-> trace_watch,
     trace |-> trace, error |-> error]

\* list.sort() on a list of integers
SortInts(s) == SortSeq(s, LAMBDA a, b : a < b)

InSeq(x, s) == \E k \in DOMAIN s : s[k] = x

\* a merge that writes an initializer only into a cell that still holds 0
RECURSIVE merge_into_empty_cells(_, _, _, _)
merge_into_empty_cells(prog, j, m, watch) ==
    IF j > Len(prog.data_order) THEN [exc |-> None, m |-> m, watch |-> watch]
    ELSE LET addr == prog.data_order[j]
             w == IF check_bounds(m, addr) = None /\ m.data[addr] # 0
                  THEN [exc |-> None, m |-> m]
                  ELSE mem_write(m, addr, prog.initial_memory[addr])
         IN  IF w.exc # None THEN [exc |-> w.exc, m |-> m, watch |-> watch]
             ELSE merge_into_empty_cells(prog, j + 1, w.m,
                     IF InSeq(addr, watch) THEN watch ELSE Append(watch, addr))

\* the loop "for addr, val in program.initial_memory.items()": writes each
\* initializer and appends its address to options.trace_watch; stops at the
\* first write that raises
RECURSIVE merge_initial_memory(_, _, _, _)
merge_initial_memory(prog, j, m, watch) ==
    IF j > Len(prog.data_order) THEN [exc |-> None, m |-> m, watch |-> watch]
    ELSE LET addr == prog.data_order[j]
             w == mem_write(m, addr, prog.initial_memory[addr])
         IN  IF w.exc # None THEN [exc |-> w.exc, m |-> m, watch |-> watch]
             ELSE merge_initial_memory(prog, j + 1, w.m,
                     IF InSeq(addr, watch) THEN watch ELSE Append(watch, addr))

\* a row that records the PC after the instruction as its address
TraceRow_pc_after(step, instr_addr, c, m, io, instr, opt) ==
    [step |-> step, addr |-> c.pc, acc |-> c.acc,
     mem |-> get_watched(m, opt.trace_watch),
     ix |-> IF opt.trace_include_ix THEN Some(c.ix) ELSE None,
     flag |-> IF opt.trace_include_flag THEN Some(c.flag) ELSE None,
     in_code |-> IF opt.trace_include_io THEN Some(io.last_in_code) ELSE None,
     out_code |-> IF opt.trace_include_io THEN Some(io.last_out_code) ELSE None,
     instr_text |-> instr.clean_text]

\* TraceRow(...).to_dict(...): a key left out of the dict is None here, a key
\* present with value x is <<x>>
TraceRow(step, instr_addr, c, m, io, instr, opt) ==
    [step |-> step, addr |-> instr_addr, acc |-> c.acc,
     mem |-> get_watched(m, opt.trace_watch),
     ix |-> IF opt.trace_include_ix THEN Some(c.ix) ELSE None,
     flag |-> IF opt.trace_include_flag THEN Some(c.flag) ELSE None,
     in_code |-> IF opt.trace_include_io THEN Some(io.last_in_code) ELSE None,
     out_code |-> IF opt.trace_include_io THEN Some(io.last_out_code) ELSE None,
     instr_text |-> instr.clean_text]

\* the except-CASMError handler and the final return of run_program
ErrorReturn(type, c, io, steps, instr, trace, opt) ==
    RunResult("error", io.output, steps, get_state(c), opt.trace_watch, trace,
        Some(ErrorInfo(type, steps,
                IF instr # None THEN Val(instr).addr ELSE c.pc,
                IF instr # None THEN Some(Val(instr).source_line_no) ELSE None)))

----------------------------------------------------------------------------
(* The programs, inputs and options the runs are started with *)

Line(addr, label, k, op, form, v, s) ==
    [addr |-> addr, label |-> label, k |-> k, op |-> op, form |-> form,
     v |-> v, s |-> s]

Op0(op) == Line(None, None, "instr", op, "none", 0, "")        \* OP
OpImm(op, n) == Line(None, None, "instr", op, "imm", n, "#n")  \* OP #n
OpNum(op, a) == Line(None, None, "instr", op, "num", a, "n")   \* OP a
OpName(op, w) == Line(None, None, "instr", op, "name", 0, w)   \* OP WORD
Data(n) == Line(None, None, "data", "", "none", n, "")         \* n
At(a, line) == [line EXCEPT !.addr = Some(a)]                  \* a line
Lbl(name, line) == [line EXCEPT !.label = Some(name)]          \* NAME: line
Blank == Line(None, None, "blank", "", "none", 0, "")
LabelOnly(name) == Line(None, Some(name), "empty", "", "none", 0, "")

\* options.start_address: the default, and a low address; the runs from the
\* low address use the full step budget, tracing and no seed
LowStartAddress == 3
StartAddresses == {DefaultStartAddress, LowStartAddress}

\* the lines the generated programs are built from
LineAlphabet ==
    {OpImm("LDM", 127), OpImm("ADD", 1), Op0("OUT"), Op0("END"),
     OpNum("JMP", 200), OpNum("JPE", 201), OpImm("CMP", 127)}

GeneratedPrograms ==
    UNION {[1..n -> LineAlphabet] : n \in 1..MaxLines}

\* programs written out for particular paths through the code
CatalogPrograms ==
    { \* LOOP: JMP LOOP
      <<Lbl("LOOP", OpName("JMP", "loop"))>>,
      \* arithmetic at the ends of the range
      <<OpImm("LDM", 32767), OpImm("ADD", 1), Op0("END")>>,
      <<OpImm("LDM", -32768), OpImm("SUB", 1), Op0("END")>>,
      <<OpImm("LDM", 65535), OpName("INC", "ACC"), Op0("END")>>,
      <<OpImm("LDM", 0), Op0("DEC"), Op0("END")>>,
      <<OpImm("LDR", 32767), OpName("INC", "IX"), OpName("DEC", "ix"), Op0("END")>>,
      <<OpImm("LDR", -1), OpName("INC", "IX"), OpName("DEC", "IX"),
        OpName("DEC", "IX")>>,
      <<At(1, Data(40000)), At(200, OpImm("LDM", 65535)), OpNum("ADD", 1),
        OpNum("SUB", 2), Op0("END")>>,
      \* 1 X: 10 / 200 LDD X / CMP #10 / JPE T / OUT / T: END
      <<At(1, Lbl("X", Data(10))), At(200, OpName("LDD", "x")), OpImm("CMP", 10),
        OpName("JPE", "T"), Op0("OUT"), Lbl("T", Op0("END"))>>,
      \* output, then a fault
      <<OpImm("LDM", 321), Op0("OUT"), Op0("OUT"), OpNum("LDD", MemSize)>>,
      <<OpImm("LDM", 200), Op0("OUT"), Op0("END")>>,
      \* JPN with the flag false (taken) and true (not taken)
      <<OpImm("CMP", 1), OpNum("JPN", 203), Op0("OUT"), Op0("END")>>,
      <<OpImm("CMP", 0), OpNum("JPN", 203), Op0("OUT"), Op0("END")>>,
      \* the lowest instruction address is neither the first line nor the
      \* start_address option, and a data initializer lies below it
      <<At(5, Op0("END")), At(1, Data(7)), At(4, OpImm("LDM", 1))>>,
      \* bitwise operations on signed operands
      <<OpImm("LDM", -1), OpImm("AND", -1), Op0("END")>>,
      <<OpImm("LDM", 0), OpImm("OR", 65535), Op0("END")>>,
      \* shifts of a negative ACC, up to and past the word width
      <<OpImm("LDM", -1), OpImm("LSR", 1), OpImm("LSL", 15), OpImm("LSR", 16)>>,
      <<OpImm("LDM", -1), OpImm("LSL", 9), OpImm("LSR", 8), OpImm("LSL", 99)>>,
      \* indexed load with a negative IX, store, indirect load
      <<OpImm("LDR", -1), OpNum("LDX", 2), OpNum("STO", 3), OpNum("LDI", 3)>>,
      \* a comparison with the immediate ACC was loaded from
      <<OpImm("LDM", -1), OpImm("CMP", -1), Op0("END")>>,
      <<OpImm("LDM", 40000), OpImm("CMP", 40000), Op0("END")>>,
      \* a label-only line and an instruction at the same explicit address
      <<At(200, OpName("JMP", "L")), At(201, LabelOnly("L")), At(201, Op0("END"))>>,
      \* the trace example of the tests, with a watched cell of this memory
      <<OpImm("LDM", 5), OpNum("STO", 1), Op0("END")>>,
      <<Op0("IN"), Op0("OUT"), Op0("IN"), Op0("OUT"), Op0("IN")>>,
      <<OpImm("LDM", 66), Op0("OUT"), OpName("JPN", "E"), Lbl("E", Op0("END"))>>,
      <<OpImm("LDM", 3), OpNum("STO", 2), OpNum("LDI", 2), OpNum("LDI", 3)>>,
      <<OpImm("LDR", -1), OpNum("LDX", 0)>>,
      <<OpImm("LDM", 1), OpImm("LSL", 3), OpImm("LSR", 1), OpImm("LSL", -1)>>,
      \* bitwise and compare through memory
      <<At(2, Data(-1)), At(200, OpImm("LDM", 255)), OpNum("AND", 2),
        OpImm("XOR", 15), OpNum("OR", 1), OpNum("CMI", 3)>>,
      <<OpImm("LDM", 5), OpName("MOV", "IX"), OpName("LDR", "ACC"),
        OpNum("CMP", 1), OpNum("JPN", 205), Op0("END"), Op0("END")>>,
      \* data initializers inside and outside memory
      <<At(2, Data(70000)), At(1, Data(-3)), At(2, Data(7)), Op0("END")>>,
      <<At(3, Data(1)), At(MemSize, Data(1)), At(200, Op0("END"))>>,
      \* instructions that pass parsing without a usable operand value
      <<OpName("LDM", "ACC"), Op0("END")>>,
      <<Op0("OUT"), OpName("ADD", "IX"), Op0("END")>>,
      <<OpName("CMP", "acc"), Op0("END")>>,
      <<OpName("LDR", "IX"), Op0("LDR"), OpNum("LDR", 3), OpNum("LDM", 4),
        Op0("MOV")>>,
      \* programs the parser rejects
      <<>>,
      <<Blank, At(1, Data(5))>>,
      <<Op0("XYZ")>>,
      <<Op0("LDD")>>,
      <<OpImm("LDM", 1), OpName("AND", "ACC")>>,
      <<OpNum("LSL", 4), Op0("END")>>,
      <<OpImm("LDM", 1), Line(None, None, "instr", "LSR", "immbad", 0, "#foo")>>,
      <<Line(None, None, "instr", "LDM", "binbad", 0, "#B2"), Op0("END")>>,
      <<Line(None, None, "badbin", "", "none", 0, ""), Op0("END")>>,
      <<OpName("JMP", "NOWHERE")>>,
      <<At(200, OpImm("LDM", 5)), At(200, OpImm("LDM", 10))>>,
      <<OpNum("IN", 3)>>,
      <<OpImm("MOV", 1)>>,
      <<OpImm("STO", 1)>>,
      <<OpNum("INC", 1)>>,
      \* mixed addressing, label-only lines, repeated labels, blank lines
      <<At(200, OpImm("LDM", 5)), OpImm("LDM", 10)>>,
      <<OpName("JMP", "L"), LabelOnly("L"), Op0("END")>>,
      <<Lbl("L", OpImm("LDM", 1)), OpName("JMP", "M"), Lbl("L", Op0("END")),
        Lbl("M", OpName("JMP", "L"))>>,
      <<Blank, OpName("ldm", "x"), At(5, Lbl("x", Op0("end")))>>,
      <<At(201, Op0("END")), At(200, OpImm("LDM", 2)), At(0, Data(1))>>,
      \* the same label twice, the same address twice
      <<Lbl("X", OpImm("LDM", 1)), Lbl("x", Op0("END"))>>,
      <<OpImm("LDM", 1), At(DefaultStartAddress, Op0("END"))>>,
      <<At(LowStartAddress, Op0("OUT")), At(LowStartAddress + 1, Op0("END")),
        At(LowStartAddress, Op0("END"))>>,
      <<At(201, Op0("END")), At(200, OpImm("LDM", 1)), Op0("OUT")>>,
      <<At(200, Data(3)), At(200, Op0("END"))>>,
      \* accesses outside memory
      <<OpImm("LDM", 1), OpNum("STO", MemSize)>>,
      <<OpNum("ADD", MemSize), Op0("END")>>,
      <<OpNum("SUB", MemSize + 1)>>,
      <<OpNum("CMP", MemSize)>>,
      <<OpNum("AND", MemSize)>>,
      <<OpNum("OR", MemSize)>>,
      <<OpNum("XOR", MemSize)>>,
      <<OpNum("LDI", MemSize)>>,
      <<OpNum("CMI", MemSize)>>,
      <<At(1, Data(-3)), At(2, Data(127)), At(200, OpNum("LDI", 0)),
        OpNum("CMI", 1), OpNum("CMI", 2)>>,
      <<At(1, Data(-3)), At(200, OpNum("CMI", 0)), OpNum("LDI", 1)>>,
      <<OpImm("LDR", 127), OpNum("LDX", 1)>>,
      <<OpImm("LDR", 1), OpNum("LDX", MemSize - 2), OpName("INC", "IX"),
        OpNum("JMP", 201)>>
    }

Programs == GeneratedPrograms \cup CatalogPrograms

Inputs == {<<>>, <<65, 322>>}

\* options.initial_memory
Seeds == {EmptyMap, (1 :> 5) @@ (2 :> 70000) @@ (MemSize + 1 :> 7)}

WordBits == {8, 16}

\* trace, trace_watch and the trace_include_* options
TraceConfigs ==
    {[trace |-> FALSE, trace_watch |-> <<>>, ix |-> FALSE, flag |-> FALSE,
      io |-> TRUE],
     [trace |-> TRUE, trace_watch |-> <<>>, ix |-> FALSE, flag |-> FALSE,
      io |-> TRUE],
     [trace |-> TRUE, trace_watch |-> <<2, 1, MemSize, 2>>, ix |-> TRUE,
      flag |-> TRUE, io |-> FALSE]}

RunOptions(start_address, max_steps, word_bits, signed, tc, initial_memory) ==
    [memory_size |-> MemSize, start_address |-> start_address,
     max_steps |-> max_steps, word_bits |-> word_bits, signed |-> signed,
     trace |-> tc.trace, trace_watch |-> tc.trace_watch,
     trace_include_ix |-> tc.ix, trace_include_flag |-> tc.flag,
     trace_include_io |-> tc.io, initial_memory |-> initial_memory]

----------------------------------------------------------------------------
(* The state machine of one call of run_program *)

\* runner.py lines 104-123: the state after the objects are constructed
Init ==
    /\ program_text \in Programs
    /\ input_text \in Inputs
    /\ \E start_address \in StartAddresses, max_steps \in 0..MaxSteps,
          word_bits \in WordBits, signed \in BOOLEAN, tc \in TraceConfigs,
          initial_memory \in Seeds :
          /\ start_address # DefaultStartAddress
             => max_steps = MaxSteps /\ tc.trace /\ initial_memory = EmptyMap
          /\ options = RunOptions(start_address, max_steps, word_bits, signed,
                                  tc, initial_memory)
    /\ caller_options = options
    /\ pc_run = "parse"
    /\ cpu = cpu_init(options.word_bits, options.signed)
    /\ memory = memory_init(options.memory_size, options.word_bits,
                            options.signed, options.initial_memory)
    /\ io_buffer = io_init
    /\ program = None
    /\ steps_executed = 0
    /\ trace_rows = <<>>
    /\ current_instr = None
    /\ result = None
    /\ escaped = None

\* parse_program is a pure function of the text and the start address: its
\* value for every program and start address of the model
ParseTable ==
    [p \in Programs, a \in StartAddresses |-> parse_program(p, a)] @@ <<>>

\* line 127: program = parse_program(program_text, options.start_address)
Parsed == ParseTable[program_text, options.start_address]

\* lines 126-127: parse_program returned
ParseReturned(r) ==
    /\ r.err = None
    /\ program' = r.program
    /\ pc_run' = "merge"
    /\ UNCHANGED <<program_text, input_text, caller_options, options, cpu, memory, io_buffer,
                   steps_executed, trace_rows, current_instr, result, escaped>>

ParseOk ==
    /\ pc_run = "parse"
    /\ ParseReturned(Parsed)

\* a parse step whose exception is not caught
ParseReraised(err) ==
    /\ err # None
    /\ escaped' = Some(Val(err).type)
    /\ pc_run' = "done"
    /\ UNCHANGED <<program_text, input_text, caller_options, options, cpu, memory, io_buffer,
                   program, steps_executed, trace_rows, current_instr, result>>

\* lines 128-137: parse_program raised; a CASMError is turned into the
\* error result, anything else leaves run_program
ParseRaised(err) ==
    /\ err # None
    /\ IF IsCASMError(Val(err).type)
       THEN /\ result' = Some(RunResult("error", <<>>, 0, get_state(cpu),
                                 options.trace_watch, <<>>,
                                 Some(ErrorInfo(Val(err).type, 0, 0,
                                                Val(err).source_line_no))))
            /\ UNCHANGED escaped
       ELSE /\ escaped' = Some(Val(err).type)
            /\ UNCHANGED result
    /\ pc_run' = "done"
    /\ UNCHANGED <<program_text, input_text, caller_options, options, cpu, memory, io_buffer,
                   program, steps_executed, trace_rows, current_instr>>

ParseFailed ==
    /\ pc_run = "parse"
    /\ ParseRaised(Parsed.err)

\* a merge after which PC is set to the start_address option
Merged_at_option(mg) ==
    /\ mg.exc = None
    /\ memory' = mg.m
    /\ options' = [options EXCEPT !.trace_watch = SortInts(mg.watch)]
    /\ cpu' = [cpu EXCEPT !.pc = options.start_address]
    /\ pc_run' = "loop"
    /\ UNCHANGED <<program_text, input_text, caller_options, io_buffer, program, steps_executed,
                   trace_rows, current_instr, result, escaped>>

\* lines 139-148: the initializers are merged, the watch list sorted, PC set
Merged(mg) ==
    /\ mg.exc = None
    /\ memory' = mg.m
    /\ options' = [options EXCEPT !.trace_watch = SortInts(mg.watch)]
    /\ cpu' = [cpu EXCEPT !.pc = Val(program).start_address]
    /\ pc_run' = "loop"
    /\ UNCHANGED <<program_text, input_text, caller_options, io_buffer, program, steps_executed,
                   trace_rows, current_instr, result, escaped>>

MergeOk ==
    /\ pc_run = "merge"
    /\ Merged(merge_initial_memory(Val(program), 1, memory, options.trace_watch))

\* lines 140-143: memory.write raised; the loop is outside the try block
MergeLeft(mg) ==
    /\ mg.exc # None
    /\ memory' = mg.m
    /\ options' = [options EXCEPT !.trace_watch = mg.watch]
    /\ escaped' = mg.exc
    /\ pc_run' = "done"
    /\ UNCHANGED <<program_text, input_text, caller_options, cpu, io_buffer, program,
                   steps_executed, trace_rows, current_instr, result>>

MergeRaised ==
    /\ pc_run = "merge"
    /\ MergeLeft(merge_initial_memory(Val(program), 1, memory, options.trace_watch))

\* a loop condition that lets one more iteration through
LoopGuardOffByOne == ~cpu.halted /\ steps_executed <= options.max_steps

\* line 153: the loop condition
LoopGuard == ~cpu.halted /\ steps_executed < options.max_steps

\* a fetch that takes an address without an instruction as the end of the
\* program
FetchEndsRun ==
    /\ pc_run = "loop"
    /\ LoopGuard
    /\ cpu.pc \notin DOMAIN Val(program).instructions
    /\ result' = Some(RunResult("ok", io_buffer.output, steps_executed,
                                get_state(cpu), options.trace_watch, trace_rows,
                                None))
    /\ pc_run' = "done"
    /\ UNCHANGED <<program_text, input_text, caller_options, options, cpu, memory, io_buffer,
                   program, steps_executed, trace_rows, current_instr, escaped>>

\* lines 155-160, 209-226: no instruction at PC
FetchFailed ==
    /\ pc_run = "loop"
    /\ LoopGuard
    /\ cpu.pc \notin DOMAIN Val(program).instructions
    /\ result' = Some(ErrorReturn("CASMRuntimeError", cpu, io_buffer,
                                  steps_executed, current_instr, trace_rows, options))
    /\ pc_run' = "done"
    /\ UNCHANGED <<program_text, input_text, caller_options, options, cpu, memory, io_buffer,
                   program, steps_executed, trace_rows, current_instr, escaped>>

\* line 162
Fetched == Val(program).instructions[cpu.pc]

\* lines 169-172
Executed ==
    execute_instruction(Fetched, cpu, memory, reset_io_codes(io_buffer), input_text)

\* a PC update that stores the PC as a signed 8-bit register value
next_pc_normalized(new_pc, old_pc) ==
    normalize(IF new_pc # None THEN Val(new_pc) ELSE old_pc + 1, 8, TRUE)

\* a PC update that ignores the address the executor returned
next_pc_sequential(new_pc, old_pc) == old_pc + 1

\* lines 175-178
next_pc(new_pc, old_pc) == IF new_pc # None THEN Val(new_pc) ELSE old_pc + 1

\* an iteration that counts the step only when a trace row is written
Completed_counting_traced(instr, out, c1) ==
    /\ out.exc = None
    /\ cpu' = c1
    /\ memory' = out.mem
    /\ io_buffer' = out.io
    /\ steps_executed' = IF options.trace THEN steps_executed + 1
                         ELSE steps_executed
    /\ trace_rows' =
            IF options.trace
            THEN Append(trace_rows,
                    TraceRow(steps_executed + 1, cpu.pc, c1, out.mem, out.io,
                             instr, options))
            ELSE trace_rows
    /\ current_instr' = Some(instr)
    /\ UNCHANGED <<program_text, input_text, caller_options, options, pc_run, program, result,
                   escaped>>

\* lines 174-199: the executor returned
Completed(instr, out, c1) ==
    /\ out.exc = None
    /\ cpu' = c1
    /\ memory' = out.mem
    /\ io_buffer' = out.io
    /\ steps_executed' = steps_executed + 1
    /\ trace_rows' =
            IF options.trace
            THEN Append(trace_rows,
                    TraceRow(steps_executed + 1, cpu.pc, c1, out.mem, out.io,
                             instr, options))
            ELSE trace_rows
    /\ current_instr' = Some(instr)
    /\ UNCHANGED <<program_text, input_text, caller_options, options, pc_run, program, result,
                   escaped>>

StepDone(instr, out) ==
    Completed(instr, out, [out.cpu EXCEPT !.pc = next_pc(out.new_pc, cpu.pc)])

\* lines 162-199: one iteration of the loop that completes
StepOk ==
    /\ pc_run = "loop"
    /\ LoopGuard
    /\ cpu.pc \in DOMAIN Val(program).instructions
    /\ StepDone(Fetched, Executed)

\* an error path on which PC has moved past the failing instruction
Faulted_pc_advanced(instr, out) ==
    /\ out.exc # None
    /\ IsCASMError(Val(out.exc))
    /\ cpu' = [out.cpu EXCEPT !.pc = @ + 1]
    /\ memory' = out.mem
    /\ io_buffer' = out.io
    /\ result' = Some(ErrorReturn(Val(out.exc), cpu', out.io, steps_executed,
                                  Some(instr), trace_rows, options))
    /\ current_instr' = Some(instr)
    /\ pc_run' = "done"
    /\ UNCHANGED <<program_text, input_text, caller_options, options, program, steps_executed,
                   trace_rows, escaped>>

\* lines 209-226: the executor raised a CASMError
Faulted(instr, out) ==
    /\ out.exc # None
    /\ IsCASMError(Val(out.exc))
    /\ cpu' = out.cpu
    /\ memory' = out.mem
    /\ io_buffer' = out.io
    /\ result' = Some(ErrorReturn(Val(out.exc), out.cpu, out.io, steps_executed,
                                  Some(instr), trace_rows, options))
    /\ current_instr' = Some(instr)
    /\ pc_run' = "done"
    /\ UNCHANGED <<program_text, input_text, caller_options, options, program, steps_executed,
                   trace_rows, escaped>>

StepFaulted ==
    /\ pc_run = "loop"
    /\ LoopGuard
    /\ cpu.pc \in DOMAIN Val(program).instructions
    /\ Faulted(Fetched, Executed)

\* line 172: the executor raised something "except CASMError" does not catch
Left(instr, out) ==
    /\ out.exc # None
    /\ ~IsCASMError(Val(out.exc))
    /\ cpu' = out.cpu
    /\ memory' = out.mem
    /\ io_buffer' = out.io
    /\ escaped' = out.exc
    /\ current_instr' = Some(instr)
    /\ pc_run' = "done"
    /\ UNCHANGED <<program_text, input_text, caller_options, options, program, steps_executed,
                   trace_rows, result>>

StepRaised ==
    /\ pc_run = "loop"
    /\ LoopGuard
    /\ cpu.pc \in DOMAIN Val(program).instructions
    /\ Left(Fetched, Executed)

\* a step-limit check that does not look at the halted flag
StepLimitIgnoringHalt ==
    /\ pc_run = "loop"
    /\ ~LoopGuard
    /\ steps_executed >= options.max_steps
    /\ result' = Some(ErrorReturn("StepLimitExceeded", cpu, io_buffer,
                                  steps_executed, current_instr, trace_rows, options))
    /\ pc_run' = "done"
    /\ UNCHANGED <<program_text, input_text, caller_options, options, cpu, memory, io_buffer,
                   program, steps_executed, trace_rows, current_instr, escaped>>

\* lines 153, 201-207, 218-226: the loop condition is false while not halted
StepLimit ==
    /\ pc_run = "loop"
    /\ ~LoopGuard
    /\ steps_executed >= options.max_steps /\ ~cpu.halted
    /\ result' = Some(ErrorReturn("StepLimitExceeded", cpu, io_buffer,
                                  steps_executed, current_instr, trace_rows, options))
    /\ pc_run' = "done"
    /\ UNCHANGED <<program_text, input_text, caller_options, options, cpu, memory, io_buffer,
                   program, steps_executed, trace_rows, current_instr, escaped>>

\* lines 153, 218-226: the loop ended with the CPU halted
ReturnOk ==
    /\ pc_run = "loop"
    /\ ~LoopGuard
    /\ ~(steps_executed >= options.max_steps /\ ~cpu.halted)
    /\ result' = Some(RunResult("ok", io_buffer.output, steps_executed,
                                get_state(cpu), options.trace_watch, trace_rows,
                                None))
    /\ pc_run' = "done"
    /\ UNCHANGED <<program_text, input_text, caller_options, options, cpu, memory, io_buffer,
                   program, steps_executed, trace_rows, current_instr, escaped>>

Next ==
    \/ ParseOk
    \/ ParseFailed
    \/ MergeOk
    \/ MergeRaised
    \/ FetchFailed
    \/ StepOk
    \/ StepFaulted
    \/ StepRaised
    \/ StepLimit
    \/ ReturnOk

Spec == Init /\ [][Next]_vars

\* run_program is one synchronous call: every step that can be taken is taken
FairSpec == Spec /\ WF_vars(Next)

----------------------------------------------------------------------------
(* normalize on its own: a CPU and a Memory of one configuration are given
   the same value, then each is given its own result again *)

MinWordBits == 8

\* values below, inside, at the ends of and beyond the range of the width
RawValues(word_bits) ==
    {0 - Pow2(word_bits) - 1, 0 - Pow2(word_bits), 0 - Pow2(word_bits - 1) - 1,
     0 - Pow2(word_bits - 1), -1, 0, 1, 100, Pow2(word_bits - 1) - 1,
     Pow2(word_bits - 1), Pow2(word_bits) - 1, Pow2(word_bits),
     Pow2(word_bits) + 1}

\* CPU(word_bits, signed) and Memory(size, word_bits, signed, {0: x}): the
\* constructor of Memory normalizes x
NormInit ==
    /\ program_text = <<>>
    /\ input_text = <<>>
    /\ \E word_bits \in MinWordBits..MaxWordBits, signed \in BOOLEAN :
          \E x \in RawValues(word_bits) :
             options = RunOptions(DefaultStartAddress, 0, word_bits, signed,
                                  [trace |-> FALSE, trace_watch |-> <<>>,
                                   ix |-> FALSE, flag |-> FALSE, io |-> FALSE],
                                  0 :> x)
    /\ caller_options = options
    /\ pc_run = "constructed"
    /\ cpu = cpu_init(options.word_bits, options.signed)
    /\ memory = memory_init(options.memory_size, options.word_bits,
                            options.signed, options.initial_memory)
    /\ io_buffer = io_init
    /\ program = None
    /\ steps_executed = 0
    /\ trace_rows = <<>>
    /\ current_instr = None
    /\ result = None
    /\ escaped = None

\* cpu.set_acc(x): CPU.normalize of the value the memory was given
SetAcc ==
    /\ pc_run = "constructed"
    /\ cpu' = set_acc(cpu, options.initial_memory[0])
    /\ pc_run' = "normalized"
    /\ UNCHANGED <<program_text, input_text, caller_options, options, memory,
                   io_buffer, program, steps_executed, trace_rows,
                   current_instr, result, escaped>>

\* cpu.set_acc(cpu.acc) and memory.write(0, memory.read(0)): each normalize
\* applied to its own result
Renormalize ==
    /\ pc_run = "normalized"
    /\ cpu' = set_acc(cpu, cpu.acc)
    /\ memory' = mem_write(memory, 0, memory.data[0]).m
    /\ pc_run' = "renormalized"
    /\ UNCHANGED <<program_text, input_text, caller_options, options,
                   io_buffer, program, steps_executed, trace_rows,
                   current_instr, result, escaped>>

NormNext ==
    \/ SetAcc
    \/ Renormalize

NormSpec == NormInit /\ [][NormNext]_vars

----------------------------------------------------------------------------
(* Properties *)

Done == pc_run = "done"
Returned == result # None
Res == Val(result)
ErrorType == Val(Res.error).type

LoopProgram == <<Lbl("LOOP", OpName("JMP", "loop"))>>

\* the error kinds of an instruction or a fetch that fails
FaultTypes ==
    {"CASMRuntimeError", "MemoryAccessError", "JumpWithoutCompare",
     "InputUnderflow", "InvalidShiftAmount"}

\* the loop is about to execute the instruction at PC
AboutToExecute ==
    /\ pc_run = "loop"
    /\ LoopGuard
    /\ cpu.pc \in DOMAIN Val(program).instructions

\* C1: a run that never executes END and never faults ends, for every step
\* budget N >= 1, with a StepLimitExceeded error and steps_executed = N; the
\* program LOOP: JMP LOOP is such a run for every N
C1_StepLimit ==
    /\ (Done /\ program # None /\ escaped = None /\ options.max_steps >= 1
        /\ ~cpu.halted /\ Returned /\ Res.error # None
        /\ ErrorType \notin FaultTypes)
       => /\ Res.status = "error"
          /\ ErrorType = "StepLimitExceeded"
          /\ Res.steps_executed = options.max_steps
    /\ (Done /\ program_text = LoopProgram /\ options.max_steps >= 1)
       => /\ Returned
          /\ Res.status = "error"
          /\ Res.error # None
          /\ ErrorType = "StepLimitExceeded"
          /\ Res.steps_executed = options.max_steps

C1_Witness ==
    /\ Done
    /\ program_text = LoopProgram
    /\ options.max_steps = MaxSteps
    /\ Returned
    /\ Res.steps_executed = MaxSteps
    /\ ErrorType = "StepLimitExceeded"

\* C2: every run terminates, and the step count never exceeds max_steps
C2_TerminatesWithinBudget ==
    /\ [](steps_executed <= options.max_steps)
    /\ <>Done

C2_Witness ==
    /\ Done
    /\ options.max_steps >= 1
    /\ steps_executed = options.max_steps
    /\ ~cpu.halted

\* C3: a JPE or JPN executed while the flag is unset ends the run with a
\* JumpWithoutCompare error, PC and the step count unchanged; a program
\* that is a single JPE fails with steps_executed = 0
C3_JumpStep ==
    (AboutToExecute /\ Fetched.opcode \in {"JPE", "JPN"} /\ cpu.flag = None)
    => /\ pc_run' = "done"
       /\ result' # None
       /\ Val(result').status = "error"
       /\ Val(Val(result').error).type = "JumpWithoutCompare"
       /\ Val(result').steps_executed = steps_executed
       /\ steps_executed' = steps_executed
       /\ cpu'.pc = cpu.pc
       /\ Val(result').final_state.pc = cpu.pc

C3_JumpWithoutCompare == [][C3_JumpStep]_vars

C3_Witness ==
    /\ Done
    /\ program_text = <<OpNum("JPE", 201)>>
    /\ Returned
    /\ Res.steps_executed = 0
    /\ ErrorType = "JumpWithoutCompare"
    /\ cpu.pc = DefaultStartAddress

\* C4: ACC, IX and every memory cell are inside the configured range in
\* every state of the run
C4_ValuesInRange ==
    /\ InRange(cpu.acc, options.word_bits, options.signed)
    /\ InRange(cpu.ix, options.word_bits, options.signed)
    /\ \A a \in DOMAIN memory.data :
          InRange(memory.data[a], options.word_bits, options.signed)

C4_Witness ==
    /\ pc_run = "loop"
    /\ options.signed /\ options.word_bits = 16
    /\ 2 \in DOMAIN options.initial_memory
    /\ options.initial_memory[2] = 70000
    /\ memory.data[2] = 4464
    /\ cpu.acc = -32768
    /\ cpu.ix = 0

\* the register INC and DEC act on
IncDecOnIx == Fetched.operand = Some("IX")

\* the amount ADD, SUB, INC or DEC adds to its register
Delta ==
    CASE Fetched.opcode = "INC" -> 1
      [] Fetched.opcode = "DEC" -> -1
      [] Fetched.opcode = "ADD" ->
            IF Fetched.operand_type = "immediate" THEN Val(Fetched.operand_value)
            ELSE memory.data[Val(Fetched.operand_value)]
      [] Fetched.opcode = "SUB" ->
            IF Fetched.operand_type = "immediate" THEN 0 - Val(Fetched.operand_value)
            ELSE 0 - memory.data[Val(Fetched.operand_value)]

\* v is the value of the range that differs from x by a multiple of 2^w
WrapsTo(x, v) ==
    /\ InRange(v, options.word_bits, options.signed)
    /\ (v - x) % Pow2(options.word_bits) = 0

\* C5: ADD, SUB, INC and DEC store register +/- operand wrapped into the
\* range: 32767 + 1 = -32768 and -32768 - 1 = 32767 in signed 16-bit mode,
\* 65535 + 1 = 0 and 0 - 1 = 65535 in unsigned 16-bit mode
C5_ArithStep ==
    (AboutToExecute /\ Fetched.opcode \in {"ADD", "SUB", "INC", "DEC"}
     /\ Executed.exc = None)
    => LET old == IF IncDecOnIx /\ Fetched.opcode \in {"INC", "DEC"}
                  THEN cpu.ix ELSE cpu.acc
           new == IF IncDecOnIx /\ Fetched.opcode \in {"INC", "DEC"}
                  THEN cpu'.ix ELSE cpu'.acc
       IN  /\ WrapsTo(old + Delta, new)
           /\ (options.word_bits = 16 /\ options.signed /\ old = 32767 /\ Delta = 1)
              => new = -32768
           /\ (options.word_bits = 16 /\ options.signed /\ old = -32768 /\ Delta = -1)
              => new = 32767
           /\ (options.word_bits = 16 /\ ~options.signed /\ old = 65535 /\ Delta = 1)
              => new = 0
           /\ (options.word_bits = 16 /\ ~options.signed /\ old = 0 /\ Delta = -1)
              => new = 65535

C5_ArithmeticWraps == [][C5_ArithStep]_vars

C5_Witness ==
    /\ program_text = <<OpImm("LDM", 32767), OpImm("ADD", 1), Op0("END")>>
    /\ options.word_bits = 16 /\ options.signed
    /\ steps_executed = 2
    /\ cpu.acc = -32768

\* the state run_program's objects are constructed in
InitialCpu == cpu_init(options.word_bits, options.signed)

\* C6: when parsing fails the run returns an error result with zero steps,
\* an empty trace, empty output and an error record, and nothing has been
\* executed: the registers and the I/O buffer are as constructed
C6_ParseFailure ==
    (Done /\ program = None)
    => /\ escaped = None
       /\ Returned
       /\ Res.status = "error"
       /\ Res.steps_executed = 0
       /\ Res.trace = <<>>
       /\ Res.output_text = <<>>
       /\ Res.error # None
       /\ ErrorType \in ParseErrorTypes \cup UndeclaredErrorTypes
       /\ Res.final_state = get_state(InitialCpu)
       /\ cpu = InitialCpu
       /\ io_buffer = io_init
       /\ steps_executed = 0

C6_Witness ==
    /\ Done
    /\ program_text = <<Op0("XYZ")>>
    /\ program = None
    /\ Returned
    /\ ErrorType = "UnknownOpcode"
    /\ Res.steps_executed = 0

\* the run ended inside the execution of an instruction
InstructionFailed ==
    /\ Done
    /\ program # None
    /\ current_instr # None
    /\ \/ escaped # None
       \/ /\ Returned
          /\ Res.error # None
          /\ ErrorType \in {"MemoryAccessError", "JumpWithoutCompare",
                            "InputUnderflow", "InvalidShiftAmount"}

\* C7: when an instruction fails after k completed steps the result has
\* status error, steps_executed = k, the output emitted so far and, with
\* tracing on, the k trace records of those steps
C7_PartialResultKept ==
    InstructionFailed
    => /\ Returned
       /\ Res.status = "error"
       /\ Res.steps_executed = steps_executed
       /\ Res.output_text = io_buffer.output
       /\ Res.trace = trace_rows
       /\ options.trace => Len(trace_rows) = steps_executed

\* C8: every run ends by returning a RunResult whose status is ok or error,
\* with an error record exactly when the status is error; no failure
\* leaves the run any other way
C8_AlwaysReturnsResult ==
    Done
    => /\ escaped = None
       /\ Returned
       /\ Res.status \in {"ok", "error"}
       /\ (Res.error # None) <=> (Res.status = "error")

\* the addresses inside memory
Cells == 0..(options.memory_size - 1)

\* execution is about to start: the merge is done, no step has been taken
ExecutionStarts == pc_run = "loop" /\ steps_executed = 0

IfElseProgram ==
    <<At(1, Lbl("X", Data(10))), At(200, OpName("LDD", "x")), OpImm("CMP", 10),
      OpName("JPE", "T"), Op0("OUT"), Lbl("T", Op0("END"))>>

C10_SeedOverridesProgram ==
    /\ ExecutionStarts
       => \A a \in Cells \cap DOMAIN Val(program).initial_memory
                         \cap DOMAIN options.initial_memory :
             memory.data[a] = normalize(options.initial_memory[a],
                                        options.word_bits, options.signed)
    /\ (Done /\ program_text = IfElseProgram /\ 1 \in DOMAIN options.initial_memory
        /\ Returned /\ Res.status = "ok")
       => /\ Res.final_state.flag = Some(FALSE)
          /\ Res.output_text = <<5>>

\* parse_program has returned or raised
Parsing == pc_run = "parse"

\* two lines of p define the same label, names compared in upper case
RepeatedLabel(p) ==
    \E i, j \in DOMAIN p :
        /\ i < j
        /\ p[i].label # None
        /\ p[j].label # None
        /\ Upper(Val(p[i].label)) = Upper(Val(p[j].label))

\* C11: a program that defines the same label on two lines is rejected
\* with a parse error; no parsed program is produced from it
C11_DuplicateLabelRejected ==
    (~Parsing /\ RepeatedLabel(program_text))
    => /\ program = None
       /\ Done
       /\ Returned
       /\ Res.status = "error"

\* the address of line i: its explicit address, else the start address for
\* the first line of the program, else one more than the preceding line
RECURSIVE PlacedAt(_, _, _)
PlacedAt(p, i, start) ==
    IF p[i].addr # None THEN Val(p[i].addr)
    ELSE LET before == {j \in 1..(i - 1) : p[j].k # "blank"}
         IN  IF before = {} THEN start
             ELSE PlacedAt(p, SetMax(before), start) + 1

InstrLines(p) == {i \in DOMAIN p : p[i].k = "instr"}
DataLines(p) == {i \in DOMAIN p : p[i].k = "data"}

\* two instruction lines of p are placed at the same address
AddressClash(p, start) ==
    \E i, j \in InstrLines(p) :
        i < j /\ PlacedAt(p, i, start) = PlacedAt(p, j, start)

\* every line of p is, taken alone, an instruction, a data line or a
\* label the parser accepts
LinesAccepted(p) ==
    /\ \A i \in DOMAIN p : p[i].k # "badbin"
    /\ \A i \in InstrLines(p) :
          instruction_error(p[i].form, Upper(p[i].op), operand_type_of(p[i]),
                            operand_str_of(p[i]), i) = None

\* C12: a second instruction at an address that holds one is rejected with
\* AddressConflict; the instruction table of a parsed program holds every
\* instruction line of the text, each at an address of its own
C12_AddressConflict ==
    ~Parsing
    => /\ AddressClash(program_text, options.start_address) => program = None
       /\ (AddressClash(program_text, options.start_address)
           /\ LinesAccepted(program_text))
          => /\ Returned
             /\ Res.status = "error"
             /\ ErrorType = "AddressConflict"
       /\ program # None
          => LET instrs == Val(program).instructions
             IN  /\ Cardinality(DOMAIN instrs)
                      = Cardinality(InstrLines(program_text))
                 /\ \A a \in DOMAIN instrs : instrs[a].addr = a
                 /\ \A a, b \in DOMAIN instrs :
                       instrs[a].source_line_no = instrs[b].source_line_no
                       => a = b

C12_Witness ==
    /\ Done
    /\ program_text = <<OpImm("LDM", 1), At(DefaultStartAddress, Op0("END"))>>
    /\ options.start_address = DefaultStartAddress
    /\ program = None
    /\ Returned
    /\ ErrorType = "AddressConflict"

\* every name operand of p that is not a register is a label of p
LabelsDefined(p) ==
    \A i \in InstrLines(p) :
        (p[i].form = "name" /\ ~operand_is_register(p[i]))
        => \E j \in DOMAIN p :
              p[j].label # None /\ Upper(Val(p[j].label)) = Upper(p[i].s)

\* p has lines with and lines without an explicit address
Mixed(p) ==
    /\ \E i \in DOMAIN p : p[i].k # "blank" /\ p[i].addr # None
    /\ \E i \in DOMAIN p : p[i].k # "blank" /\ p[i].addr = None

\* C13: explicit and address-less lines may be mixed: mixing is no parse
\* error, the first address-less line is placed at start_address and an
\* address-less line after another line at that line's address + 1
C13_MixedAddressing ==
    ~Parsing
    => /\ (Mixed(program_text) /\ LinesAccepted(program_text)
           /\ LabelsDefined(program_text) /\ InstrLines(program_text) # {}
           /\ ~AddressClash(program_text, options.start_address))
          => program # None
       /\ program # None
          => /\ \A a \in DOMAIN Val(program).instructions :
                   a = PlacedAt(program_text,
                                Val(program).instructions[a].source_line_no,
                                options.start_address)
             /\ DOMAIN Val(program).initial_memory =
                   {PlacedAt(program_text, i, options.start_address) :
                        i \in DataLines(program_text)}

C13_Witness ==
    /\ ~Parsing
    /\ program_text = <<At(200, OpImm("LDM", 5)), OpImm("LDM", 10)>>
    /\ options.start_address = LowStartAddress
    /\ program # None
    /\ DOMAIN Val(program).instructions = {200, 201}
    /\ Val(program).instructions[201].source_line_no = 2
    /\ Val(program).instructions[201].operand_value = Some(10)

\* the opcodes the instruction table gives an operand
OperandRequired ==
    {"LDM", "LDD", "LDI", "LDX", "LDR", "MOV", "STO", "ADD", "SUB", "CMP",
     "CMI", "JMP", "JPE", "JPN", "LSL", "LSR", "AND", "OR", "XOR"}

\* line i of p is an instruction written without an operand it requires,
\* or an IN, OUT or END written with one
OperandCountWrong(p, i) ==
    /\ i \in InstrLines(p)
    /\ \/ Upper(p[i].op) \in OperandRequired /\ p[i].form = "none"
       \/ Upper(p[i].op) \in OPCODES_NO_OPERAND /\ p[i].form # "none"

\* C14: parsing rejects every instruction that requires an operand and has
\* none, and every IN, OUT or END that has one
C14_OperandCount ==
    (~Parsing /\ \E i \in DOMAIN program_text :
                     OperandCountWrong(program_text, i))
    => /\ program = None
       /\ Done
       /\ Returned
       /\ Res.status = "error"

\* the operand kinds the instruction table allows an opcode
LegalKind(instr) ==
    CASE instr.opcode = "LDM" -> instr.operand_type = "immediate"
      [] instr.opcode = "LDR" ->
            \/ instr.operand_type = "immediate"
            \/ instr.operand_type = "register" /\ instr.operand = Some("ACC")
      [] instr.opcode = "MOV" ->
            instr.operand_type = "register" /\ instr.operand = Some("IX")
      [] instr.opcode \in {"ADD", "SUB", "CMP", "AND", "OR", "XOR"} ->
            instr.operand_type \in {"immediate", "direct"}
      [] instr.opcode \in {"LSL", "LSR"} -> instr.operand_type = "immediate"
      [] instr.opcode \in {"LDD", "LDI", "LDX", "STO", "CMI", "JMP", "JPE",
                           "JPN"} -> instr.operand_type = "direct"
      [] instr.opcode \in {"INC", "DEC"} ->
            \/ instr.operand_type = "none"
            \/ instr.operand_type = "register"
               /\ instr.operand \in {Some("ACC"), Some("IX")}
      [] instr.opcode \in {"IN", "OUT", "END"} -> instr.operand_type = "none"

\* C15: in every parsed program each instruction's operand kind is in the
\* legal subset of its opcode
C15_OperandKinds ==
    program # None
    => \A a \in DOMAIN Val(program).instructions :
          LegalKind(Val(program).instructions[a])

\* line i of p is a shift with a negative immediate amount
NegativeShift(p, i) ==
    /\ i \in InstrLines(p)
    /\ Upper(p[i].op) \in SHIFT_OPCODES
    /\ p[i].form = "imm"
    /\ p[i].v < 0

\* C16: a shift with a negative immediate amount is a parse error: the run
\* ends with no step executed, no output and no trace
C16_NegativeShiftRejected ==
    (~Parsing /\ \E i \in DOMAIN program_text : NegativeShift(program_text, i))
    => /\ program = None
       /\ steps_executed = 0
       /\ io_buffer.output = <<>>
       /\ trace_rows = <<>>
       /\ Done
       /\ Returned
       /\ Res.status = "error"
       /\ Res.steps_executed = 0
       /\ Res.output_text = <<>>
       /\ Res.trace = <<>>

\* the lines of p that define the label a name refers to
DefiningLines(p, name) ==
    {j \in DOMAIN p : p[j].label # None /\ Upper(Val(p[j].label)) = Upper(name)}

\* C17: after a successful parse every direct operand has an integer value:
\* a number is itself, a label reference (before or after its definition,
\* in any letter case) is the address of a line defining the label; a text
\* with a reference to a label defined nowhere is rejected
C17_LabelsResolved ==
    ~Parsing
    => /\ program # None
          => \A a \in DOMAIN Val(program).instructions :
                LET instr == Val(program).instructions[a]
                    line == program_text[instr.source_line_no]
                IN  instr.operand_type = "direct"
                    => /\ instr.operand_value # None
                       /\ line.form = "num"
                          => instr.operand_value = Some(line.v)
                       /\ line.form = "name"
                          => \E j \in DefiningLines(program_text, line.s) :
                                instr.operand_value =
                                    Some(PlacedAt(program_text, j,
                                                  options.start_address))
       /\ ~LabelsDefined(program_text) => program = None

C17_Witness ==
    /\ pc_run = "loop"
    /\ program_text = <<OpName("JMP", "L"), LabelOnly("L"), Op0("END")>>
    /\ options.start_address = LowStartAddress
    /\ Val(program).instructions[LowStartAddress].operand_value
          = Some(LowStartAddress + 1)
    /\ steps_executed = 1
    /\ cpu.pc = LowStartAddress + 1

\* the addresses the instruction at PC reads or writes, from the state
\* before it executes
AccessedAddresses ==
    LET instr == Fetched
        a == Val(instr.operand_value)
    IN  IF instr.operand_value = None THEN {}
        ELSE IF instr.opcode \in {"LDD", "STO"} THEN {a}
        ELSE IF instr.opcode \in {"ADD", "SUB", "CMP", "AND", "OR", "XOR"}
                /\ instr.operand_type # "immediate" THEN {a}
        ELSE IF instr.opcode \in {"LDI", "CMI"}
        THEN IF a \in Cells THEN {a, memory.data[a]} ELSE {a}
        ELSE IF instr.opcode = "LDX" THEN {a + cpu.ix}
        ELSE {}

\* C18: an instruction that accesses an address outside memory ends the run
\* with MemoryAccessError, registers and memory as they were
C18_OutOfBoundsStep ==
    (AboutToExecute /\ AccessedAddresses \ Cells # {})
    => /\ pc_run' = "done"
       /\ result' # None
       /\ Val(result').status = "error"
       /\ Val(Val(result').error).type = "MemoryAccessError"
       /\ memory' = memory
       /\ cpu' = cpu
       /\ steps_executed' = steps_executed

\* C18: every access outside [0, memory_size) is a MemoryAccessError, and
\* the memory has the same size in every state
C18_MemoryBounds ==
    /\ [](memory.size = options.memory_size /\ DOMAIN memory.data = Cells)
    /\ [][C18_OutOfBoundsStep]_vars

C18_Witness ==
    /\ Done
    /\ program_text = <<OpImm("LDR", -1), OpNum("LDX", 0)>>
    /\ cpu.ix = -1
    /\ steps_executed = 1
    /\ Returned
    /\ ErrorType = "MemoryAccessError"

\* C19: when the run is not halted, the budget not exhausted and no
\* instruction is at PC, the run ends with a runtime error and nothing
\* more is executed
C19_NoInstructionStep ==
    (pc_run = "loop" /\ ~cpu.halted /\ steps_executed < options.max_steps
     /\ cpu.pc \notin DOMAIN Val(program).instructions)
    => /\ pc_run' = "done"
       /\ result' # None
       /\ Val(result').status = "error"
       /\ Val(Val(result').error).type = "CASMRuntimeError"
       /\ Val(result').steps_executed = steps_executed
       /\ steps_executed' = steps_executed
       /\ cpu' = cpu
       /\ memory' = memory
       /\ io_buffer' = io_buffer

C19_NoInstruction == [][C19_NoInstructionStep]_vars

C19_Witness ==
    /\ Done
    /\ program_text = <<OpImm("LDM", 127), OpImm("ADD", 1)>>
    /\ steps_executed = 2
    /\ cpu.pc = options.start_address + 2
    /\ Returned
    /\ ErrorType = "CASMRuntimeError"

\* C20: the error record of a runtime failure holds the number of completed
\* steps and the faulting address: the instruction's address when an
\* instruction failed, the PC when no instruction is there or the step
\* budget is exhausted
C20_ErrorContext ==
    (Done /\ program # None /\ Returned /\ Res.error # None)
    => /\ Val(Res.error).step = steps_executed
       /\ ErrorType \in {"MemoryAccessError", "JumpWithoutCompare",
                         "InputUnderflow", "InvalidShiftAmount"}
          => Val(Res.error).addr = Val(current_instr).addr
       /\ ErrorType \in {"CASMRuntimeError", "StepLimitExceeded"}
          => Val(Res.error).addr = cpu.pc

\* the addresses of a watch list
Addresses(watch) == {watch[k] : k \in DOMAIN watch}

\* strictly ascending: sorted, and no address twice
StrictlyAscending(watch) ==
    \A i, j \in DOMAIN watch : i < j => watch[i] < watch[j]

\* C21: the trace_watch list of every result is sorted ascending and holds
\* no address twice; after a successful parse it holds every address of the
\* watch list the caller gave and every address with a data initializer
C21_TraceWatchSorted ==
    (Done /\ Returned)
    => /\ StrictlyAscending(Res.trace_watch)
       /\ program # None
          => /\ Addresses(caller_options.trace_watch)
                    \subseteq Addresses(Res.trace_watch)
             /\ DOMAIN Val(program).initial_memory
                    \subseteq Addresses(Res.trace_watch)

\* the watch list that a later run of a program without data initializers
\* returns, and snapshots in its trace, when it is given the options object
\* o: nothing is appended, the list is sorted
WatchOfLaterRun(o) == SortInts(o.trace_watch)

\* C22: a run depends on its program text, input text and option values
\* only: when it ends, the options object holds what the caller gave, so a
\* later run that is handed the same object returns the watch list it would
\* return with a fresh object of the same values
C22_RunsIndependent ==
    Done => /\ options = caller_options
            /\ WatchOfLaterRun(options) = WatchOfLaterRun(caller_options)

\* a step has just completed and the instruction it ran has this opcode
JustRan(opcode) ==
    /\ pc_run = "loop"
    /\ current_instr # None
    /\ Val(current_instr).opcode = opcode

\* the character codes the trace rows report as read, in row order
InCodes(rows) ==
    LET ins == SelectSeq(rows, LAMBDA r : r.in_code # None /\ Val(r.in_code) # None)
    IN  [i \in 1..Len(ins) |-> Val(Val(ins[i].in_code))]

\* C23 as stated: after the k-th IN, ACC is the character code of the k-th
\* input character
C23_InReadsCharCode ==
    JustRan("IN") => cpu.acc = input_text[io_buffer.input_pos]

\* the cursor counts the INs that succeeded: the codes the trace reports as
\* read are the first input_pos characters of the input, in order
C23_CursorCountsReads ==
    (program # None /\ options.trace /\ options.trace_include_io)
    => LET codes == InCodes(trace_rows)
       IN  /\ Len(codes) = io_buffer.input_pos
           /\ \A k \in 1..Len(codes) : codes[k] = input_text[k]

C23_InStep ==
    /\ AboutToExecute /\ Fetched.opcode = "IN"
       => IF io_buffer.input_pos < Len(input_text)
          THEN /\ pc_run' = "loop"
               /\ io_buffer'.input_pos = io_buffer.input_pos + 1
               /\ cpu'.acc = normalize(input_text[io_buffer.input_pos + 1],
                                       options.word_bits, options.signed)
          ELSE /\ pc_run' = "done"
               /\ result' # None
               /\ Val(result').status = "error"
               /\ Val(Val(result').error).type = "InputUnderflow"
               /\ io_buffer'.input_pos = io_buffer.input_pos
               /\ cpu'.acc = cpu.acc
    /\ ~(AboutToExecute /\ Fetched.opcode = "IN")
       => io_buffer'.input_pos = io_buffer.input_pos

\* C23 (amended): the k-th IN sets ACC to the code of the k-th input
\* character normalized to the word width; the cursor advances by one per
\* IN that succeeds and by nothing else; an IN with no character left fails
\* with InputUnderflow and changes neither ACC nor the cursor
C23_InReadsNormalizedCode ==
    /\ []C23_CursorCountsReads
    /\ [][C23_InStep]_vars

\* the third IN of IN OUT IN OUT IN on a two-character input, 8-bit words:
\* the second character, code 322, was read as 66
C23_Witness ==
    /\ Done
    /\ Returned
    /\ Res.error # None
    /\ ErrorType = "InputUnderflow"
    /\ io_buffer.input_pos = 2
    /\ input_text[2] = 322
    /\ cpu.acc = 66
    /\ Len(InCodes(trace_rows)) = 2

\* the character codes the trace rows report as written, in row order
OutCodes(rows) ==
    LET outs == SelectSeq(rows, LAMBDA r : r.out_code # None /\ Val(r.out_code) # None)
    IN  [i \in 1..Len(outs) |-> Val(Val(outs[i].out_code))]

\* the output is what the OUTs wrote, in execution order, each a code in
\* 0..255, and a result returns it whole
C24_OutputIsWhatWasWritten ==
    /\ \A k \in DOMAIN io_buffer.output : io_buffer.output[k] \in 0..ByteMask
    /\ (program # None /\ options.trace /\ options.trace_include_io)
       => LET codes == OutCodes(trace_rows)
          IN  /\ Len(codes) = Len(io_buffer.output)
              /\ \A k \in 1..Len(codes) : codes[k] = io_buffer.output[k]
    /\ (Done /\ Returned) => Res.output_text = io_buffer.output

C24_OutStep ==
    IF AboutToExecute /\ Fetched.opcode = "OUT"
    THEN /\ pc_run' = "loop"
         /\ io_buffer'.output = Append(io_buffer.output, cpu.acc % (ByteMask + 1))
         /\ cpu'.acc = cpu.acc
    ELSE io_buffer'.output = io_buffer.output

\* C24: an OUT appends one character, the one with code ACC & 0xFF, also
\* for a negative ACC, and leaves ACC unchanged; no other step changes the
\* output, so the output after a step is a prefix of the output after every
\* later step and output_text is the characters written, in execution order
C24_OutAppendsLowByte ==
    /\ []C24_OutputIsWhatWasWritten
    /\ [][C24_OutStep]_vars

\* LDM #200 / OUT / END with signed 8-bit words: ACC is -56, character 200
\* is written
C24_Witness ==
    /\ Done
    /\ Returned
    /\ Res.status = "ok"
    /\ cpu.acc = -56
    /\ Res.output_text = <<200>>
    /\ OutCodes(trace_rows) = <<200>>

\* the cells a trace row snapshots: the watched addresses inside the memory
Snapshot(m) ==
    [a \in Addresses(options.trace_watch) \cap Cells |-> m.data[a]]

\* with tracing on there is one record per completed step, numbered from 1,
\* and a result returns them all
C25_OneRecordPerStep ==
    (program # None /\ options.trace)
    => /\ Len(trace_rows) = steps_executed
       /\ \A i \in DOMAIN trace_rows : trace_rows[i].step = i
       /\ (Done /\ Returned)
          => Res.trace = trace_rows /\ Len(Res.trace) = Res.steps_executed

C25_RecordStep ==
    (pc_run = "loop" /\ options.trace)
    => IF steps_executed' = steps_executed + 1
       THEN /\ Len(trace_rows') = Len(trace_rows) + 1
            /\ SubSeq(trace_rows', 1, Len(trace_rows)) = trace_rows
            /\ LET row == trace_rows'[Len(trace_rows')]
               IN  /\ row.step = steps_executed + 1
                   /\ row.addr = cpu.pc
                   /\ row.addr = Val(current_instr').addr
                   /\ row.acc = cpu'.acc
                   /\ row.mem = Snapshot(memory')
       ELSE trace_rows' = trace_rows

C26_InitialRecord ==
    (Done /\ Returned /\ program # None /\ options.trace)
    => /\ Len(Res.trace) = Res.steps_executed + 1
       /\ Res.trace[1].acc = 0
       /\ Res.steps_executed >= 1
          => Res.trace[2].addr = Val(program).start_address

\* the CPU is halted exactly when the last instruction executed is an END
C27_HaltedByEnd ==
    program # None
    => (cpu.halted <=> (steps_executed >= 1 /\ current_instr # None
                        /\ Val(current_instr).opcode = "END"))

\* a run ends either halted, with status ok, or not halted, with status
\* error or with an exception that leaves run_program
C27_HaltedOrErrored ==
    Done
    => /\ cpu.halted
          => /\ Returned
             /\ Res.status = "ok"
             /\ Res.error = None
             /\ Res.steps_executed = steps_executed
             /\ options.trace
                => /\ Res.trace[steps_executed].step = steps_executed
                   /\ Res.trace[steps_executed].addr = Val(current_instr).addr
       /\ ~cpu.halted
          => \/ escaped # None /\ result = None
             \/ Returned /\ Res.status = "error" /\ Res.error # None

\* once the CPU is halted the next step returns the result and nothing is
\* executed
C27_NothingAfterEnd ==
    (pc_run = "loop" /\ cpu.halted)
    => /\ pc_run' = "done"
       /\ result' # None
       /\ Val(result').status = "ok"
       /\ UNCHANGED <<cpu, memory, io_buffer, steps_executed, trace_rows>>

\* C27: a run ends in exactly one of Halted and Errored and executes
\* nothing afterwards: status is ok if and only if an END executed, that END
\* is the last instruction executed and is counted in steps_executed; also
\* when the END is the N-th step of a run with max_steps = N
C27_HaltOrError ==
    /\ [](C27_HaltedByEnd /\ C27_HaltedOrErrored)
    /\ [][C27_NothingAfterEnd]_vars

\* END as the last step the budget allows
C27_Witness ==
    /\ Done
    /\ Returned
    /\ Res.status = "ok"
    /\ options.max_steps >= 2
    /\ Res.steps_executed = options.max_steps
    /\ Val(current_instr).opcode = "END"

\* the CPU's and the memory's normalize give the same value, inside the range
C28_NormalizeAgrees ==
    pc_run \in {"normalized", "renormalized"}
    => /\ cpu.acc = memory.data[0]
       /\ InRange(cpu.acc, options.word_bits, options.signed)
       /\ InRange(options.initial_memory[0], options.word_bits, options.signed)
          => cpu.acc = options.initial_memory[0]

C28_RenormalizeStep ==
    pc_run = "normalized" => cpu' = cpu /\ memory' = memory

\* C28: normalize is idempotent, normalize(normalize(x)) = normalize(x),
\* for x negative, in range or beyond the width, for every width from 8 up
\* and both signednesses, and CPU.normalize and Memory.normalize agree on
\* the same x and configuration
C28_NormalizeIdempotent ==
    /\ []C28_NormalizeAgrees
    /\ [][C28_RenormalizeStep]_vars

\* a negative value beyond the widest signed word, taken to the top of the
\* range by both and left there by the second application
C28_Witness ==
    /\ pc_run = "renormalized"
    /\ options.word_bits = MaxWordBits
    /\ options.signed
    /\ options.initial_memory[0] = 0 - Pow2(MaxWordBits - 1) - 1
    /\ cpu.acc = Pow2(MaxWordBits - 1) - 1
    /\ memory.data[0] = cpu.acc

\* the loop is about to execute a conditional jump with the flag set
AboutToJumpOnFlag ==
    /\ AboutToExecute
    /\ Fetched.opcode \in {"JPE", "JPN"}
    /\ cpu.flag # None

C29_ConditionalJumpStep ==
    AboutToJumpOnFlag
    => LET taken == IF Fetched.opcode = "JPE" THEN Val(cpu.flag)
                    ELSE ~Val(cpu.flag)
       IN  /\ pc_run' = "loop"
           /\ cpu'.pc = IF taken THEN Val(Fetched.operand_value) ELSE cpu.pc + 1
           /\ cpu'.flag = cpu.flag
           /\ cpu'.acc = cpu.acc
           /\ cpu'.ix = cpu.ix
           /\ memory' = memory
           /\ io_buffer'.output = io_buffer.output

\* C29: with the flag set, JPE sets PC to its target exactly when the flag
\* is true and JPN exactly when it is false; otherwise PC advances by one;
\* flag, ACC, IX, memory and output stay as they are
C29_ConditionalJump == [][C29_ConditionalJumpStep]_vars

\* CMP #1 / JPN 203 / OUT / END: the flag is false, JPN at 201 went to 203
C29_Witness ==
    /\ JustRan("JPN")
    /\ cpu.flag = Some(FALSE)
    /\ Val(current_instr).addr = 201
    /\ cpu.pc = 203
    /\ io_buffer.output = <<>>

\* the instruction at PC returns a jump target: JMP always, JPE and JPN when
\* the flag makes them jump
ReturnsTarget(instr) ==
    \/ instr.opcode = "JMP"
    \/ instr.opcode = "JPE" /\ cpu.flag = Some(TRUE)
    \/ instr.opcode = "JPN" /\ cpu.flag = Some(FALSE)

C30_PcStep ==
    (AboutToExecute /\ steps_executed' = steps_executed + 1)
    => /\ Fetched.addr = cpu.pc
       /\ cpu'.pc = IF ReturnsTarget(Fetched) THEN Val(Fetched.operand_value)
                    ELSE Fetched.addr + 1

\* C30: after every instruction that executed, PC is the jump target when
\* the instruction returned one and the instruction's own address + 1
\* otherwise, also after END; the value is stored as it is, not normalized
\* to the word width
C30_PcUpdate == [][C30_PcStep]_vars

\* JMP 200 with signed 8-bit words: PC is 200, above the register range
C30_Witness ==
    /\ JustRan("JMP")
    /\ options.word_bits = 8
    /\ options.signed
    /\ cpu.pc = DefaultStartAddress
    /\ ~InRange(cpu.pc, options.word_bits, options.signed)
    /\ steps_executed >= 2

\* a is the lowest address that holds an instruction
LowestInstruction(a) ==
    /\ a \in DOMAIN Val(program).instructions
    /\ \A b \in DOMAIN Val(program).instructions : a <= b

C31_FirstStep ==
    (AboutToExecute /\ steps_executed = 0)
    => /\ LowestInstruction(Fetched.addr)
       /\ current_instr' # None
       /\ Val(current_instr').addr = Fetched.addr

\* C31: execution begins at the lowest address holding an instruction: the
\* first instruction executed is the one there, also when it is not the
\* first line of the source, when data initializers lie below it and when
\* it differs from the start_address option
C31_StartsAtLowestInstruction ==
    /\ [](ExecutionStarts => LowestInstruction(cpu.pc))
    /\ [][C31_FirstStep]_vars

\* 5 END / 1 7 / 4 LDM #1 run with the default start_address: the first
\* instruction executed is line 3, at address 4
C31_Witness ==
    /\ pc_run = "loop"
    /\ steps_executed = 1
    /\ Val(current_instr).addr = 4
    /\ Val(current_instr).source_line_no = 3
    /\ options.start_address = DefaultStartAddress
    /\ 1 \in DOMAIN Val(program).initial_memory
    /\ cpu.acc = 1

\* bit i of the unsigned w-bit value of v
Bit(v, i) == (MaskTo(v, options.word_bits) \div Pow2(i)) % 2

\* the value an instruction with an immediate or direct operand works on
OperandOf(instr) ==
    IF instr.operand_type = "immediate" THEN Val(instr.operand_value)
    ELSE memory.data[Val(instr.operand_value)]

\* the loop is about to execute an instruction of these opcodes, and the
\* step completes
Completes(opcodes) ==
    /\ AboutToExecute
    /\ Fetched.opcode \in opcodes
    /\ steps_executed' = steps_executed + 1

C32_BitwiseStep ==
    Completes({"AND", "OR", "XOR"})
    => /\ InRange(cpu'.acc, options.word_bits, options.signed)
       /\ \A i \in 0..(options.word_bits - 1) :
             LET x == Bit(cpu.acc, i)
                 y == Bit(OperandOf(Fetched), i)
             IN  Bit(cpu'.acc, i) =
                   CASE Fetched.opcode = "AND" -> IF x = 1 /\ y = 1 THEN 1 ELSE 0
                     [] Fetched.opcode = "OR"  -> IF x = 1 \/ y = 1 THEN 1 ELSE 0
                     [] Fetched.opcode = "XOR" -> IF x # y THEN 1 ELSE 0

\* C32: AND, OR and XOR store normalize((ACC mod 2^w) op (operand mod 2^w))
\* in ACC, the operand being the immediate or MEM[a]: bit by bit the
\* unsigned values are combined, and the result is read as signed in signed
\* mode
C32_Bitwise == [][C32_BitwiseStep]_vars

\* LDM #0 / OR #65535 with signed 16-bit words: ACC is -1
C32_Witness ==
    /\ JustRan("OR")
    /\ options.word_bits = 16
    /\ options.signed
    /\ Val(current_instr).operand_value = Some(65535)
    /\ cpu.acc = -1

C33_ShiftStep ==
    Completes({"LSL", "LSR"})
    => LET n == Val(Fetched.operand_value)
           w == options.word_bits
       IN  /\ InRange(cpu'.acc, w, options.signed)
           /\ Fetched.opcode = "LSL"
              => \A i \in 0..(w - 1) :
                    Bit(cpu'.acc, i) = IF i >= n THEN Bit(cpu.acc, i - n) ELSE 0
           /\ Fetched.opcode = "LSR"
              => /\ \A i \in 0..(w - 1) :
                       Bit(cpu'.acc, i) = IF i + n < w THEN Bit(cpu.acc, i + n) ELSE 0
                 /\ n >= 1 => cpu'.acc >= 0
           /\ n >= w => cpu'.acc = 0

\* C33: LSL #n stores normalize(((ACC mod 2^w) * 2^n) mod 2^w) and LSR #n
\* stores normalize((ACC mod 2^w) div 2^n): the bits of the unsigned ACC
\* move by n places, zeros come in, bits moved past the word are lost, LSR
\* by n >= 1 of a negative ACC is non-negative and any n >= w gives 0
C33_LogicalShift == [][C33_ShiftStep]_vars

\* LDM #-1 / LSR #1 with signed 16-bit words: ACC is 32767
C33_Witness ==
    /\ JustRan("LSR")
    /\ steps_executed = 2
    /\ options.word_bits = 16
    /\ options.signed
    /\ program_text[1] = OpImm("LDM", -1)
    /\ cpu.acc = 32767

C34_LoadStoreStep ==
    Completes({"LDD", "LDI", "LDX", "STO"})
    => LET a == Val(Fetched.operand_value)
       IN  /\ cpu'.ix = cpu.ix
           /\ cpu'.flag = cpu.flag
           /\ a \in Cells \/ Fetched.opcode = "LDX"
           /\ Fetched.opcode = "LDD" => cpu'.acc = memory.data[a]
           /\ Fetched.opcode = "LDI"
              => /\ memory.data[a] \in Cells
                 /\ cpu'.acc = memory.data[memory.data[a]]
           /\ Fetched.opcode = "LDX"
              => /\ a + cpu.ix \in Cells
                 /\ cpu'.acc = memory.data[a + cpu.ix]
           /\ Fetched.opcode # "STO" => memory' = memory
           /\ Fetched.opcode = "STO"
              => /\ cpu'.acc = cpu.acc
                 /\ memory' = [memory EXCEPT !.data[a] = cpu.acc]

\* C34: LDD a loads MEM[a], LDI a loads MEM[MEM[a]], LDX a loads
\* MEM[a + IX] with IX signed, STO a stores ACC in MEM[a]; a load changes
\* no cell and, of ACC, IX and the flag, only ACC; STO changes no other
\* cell and none of them
C34_LoadStore == [][C34_LoadStoreStep]_vars

\* LDR #-1 / LDX 2 with the seed 5 in cell 1: IX is -1 and ACC is 5
C34_Witness ==
    /\ JustRan("LDX")
    /\ cpu.ix = -1
    /\ Val(current_instr).operand_value = Some(2)
    /\ memory.data[1] = 5
    /\ cpu.acc = 5

C35_IoCodesStep ==
    (AboutToExecute /\ steps_executed' = steps_executed + 1)
    => /\ io_buffer'.last_in_code =
             IF Fetched.opcode = "IN"
             THEN Some(input_text[io_buffer.input_pos + 1]) ELSE None
       /\ io_buffer'.last_out_code =
             IF Fetched.opcode = "OUT"
             THEN Some(cpu.acc % (ByteMask + 1)) ELSE None
       /\ (options.trace /\ options.trace_include_io)
          => LET row == trace_rows'[Len(trace_rows')]
             IN  /\ row.in_code = Some(io_buffer'.last_in_code)
                 /\ row.out_code = Some(io_buffer'.last_out_code)

\* C35: the last-read and last-written codes are reset before each
\* instruction: a trace record has an in_code exactly when its instruction
\* is IN, the code read, and an out_code exactly when it is OUT, ACC & 0xFF;
\* no code carries over into the record of a later step
C35_IoCodesReset == [][C35_IoCodesStep]_vars

\* IN / OUT / IN ...: the record of the OUT has the out_code and no in_code,
\* the record of the second IN no out_code
C35_Witness ==
    /\ Done
    /\ Returned
    /\ options.trace_include_io
    /\ Len(Res.trace) = 4
    /\ Res.trace[1].in_code = Some(Some(65))
    /\ Res.trace[1].out_code = Some(None)
    /\ Res.trace[2].in_code = Some(None)
    /\ Res.trace[2].out_code = Some(Some(65))
    /\ Res.trace[3].out_code = Some(None)

C36_FailedStep ==
    (AboutToExecute /\ pc_run' = "done")
    => /\ cpu' = cpu
       /\ memory' = memory
       /\ io_buffer'.output = io_buffer.output
       /\ io_buffer'.input_pos = io_buffer.input_pos
       /\ steps_executed' = steps_executed
       /\ result' # None
          => /\ Val(result').final_state = get_state(cpu)
             /\ Val(result').final_state.pc = Fetched.addr

\* C36: an instruction that fails at run time changes nothing: ACC, IX,
\* the flag, PC, every cell, the output and the input cursor are as before
\* it, and the final state of the result has the failing instruction's
\* address as PC
C36_FailureChangesNothing == [][C36_FailedStep]_vars

\* LDM #321 / OUT / OUT / LDD 8 in a memory of 8 cells: the LDD at the
\* fourth address fails, ACC and the two characters written are kept
C36_Witness ==
    /\ Done
    /\ Returned
    /\ Res.error # None
    /\ ErrorType = "MemoryAccessError"
    /\ steps_executed = 3
    /\ Res.final_state.pc = options.start_address + 3
    /\ Res.final_state.acc = 321
    /\ Res.output_text = <<65, 65>>

\* the flag is unset until execution starts
C37_FlagUnsetAtStart ==
    (pc_run \in {"parse", "merge"} \/ ExecutionStarts) => cpu.flag = None

C37_FlagStep ==
    /\ cpu'.flag # cpu.flag => Completes({"CMP", "CMI"})
    /\ Completes({"CMP", "CMI"}) => cpu'.flag # None
    /\ cpu.flag # None
       => /\ cpu'.flag # None
          /\ result' # None /\ Val(result').error # None
             => Val(Val(result').error).type # "JumpWithoutCompare"
          /\ (AboutToExecute /\ Fetched.opcode \in {"JPE", "JPN"})
             => steps_executed' = steps_executed + 1

\* C37: the flag is unset at the start of a run, is written by CMP and CMI
\* only and never returns to unset: after the first CMP or CMI that
\* succeeded, no JPE or JPN fails with JumpWithoutCompare
C37_FlagSetOnce ==
    /\ []C37_FlagUnsetAtStart
    /\ [][C37_FlagStep]_vars

\* LDD X / CMP #10 / JPE T: the JPE, two steps after the start, succeeded
C37_Witness ==
    /\ JustRan("JPE")
    /\ steps_executed = 3
    /\ cpu.flag = Some(TRUE)
    /\ cpu.acc = 10

\* the run has executed LDM #n and then CMP #n, with the same n, as its
\* first two instructions
RanLdmThenCmp ==
    /\ JustRan("CMP")
    /\ steps_executed = 2
    /\ LET cmp == Val(current_instr)
           first == Val(program).start_address
       IN  /\ cmp.addr = first + 1
           /\ cmp.operand_type = "immediate"
           /\ cmp.operand_value # None
           /\ Val(program).instructions[first].opcode = "LDM"
           /\ Val(program).instructions[first].operand_type = "immediate"
           /\ Val(program).instructions[first].operand_value = cmp.operand_value

\* C38: for every immediate n, width and signedness, LDM #n followed by
\* CMP #n leaves the flag true, also when n is outside the register range
C38_CompareAgreesWithLoad ==
    RanLdmThenCmp => cpu.flag = Some(TRUE)

\* the lines of p that hold a label definition and nothing after it, the
\* label defined on no other line
LabelOnlyLines(p) ==
    {i \in DOMAIN p : /\ p[i].k = "empty"
                      /\ p[i].label # None
                      /\ DefiningLines(p, Val(p[i].label)) = {i}}

\* line i + 1 of p is an instruction line without an explicit address
NextIsAddressless(p, i) ==
    /\ i + 1 \in DOMAIN p
    /\ p[i + 1].k = "instr"
    /\ p[i + 1].addr = None

UntracedOptions ==
    [caller_options EXCEPT !.trace = FALSE, !.trace_watch = <<>>,
                           !.trace_include_ix = FALSE,
                           !.trace_include_flag = FALSE,
                           !.trace_include_io = FALSE]

\* the loop of run_program, lines 153-226, as it runs with tracing off, from
\* the state (c, m, io, steps, instr): [result, escaped]
RECURSIVE run_untraced(_, _, _, _, _, _)
run_untraced(prog, c, m, io, steps, instr) ==
    IF c.halted \/ steps >= UntracedOptions.max_steps
    THEN [result |->
            IF steps >= UntracedOptions.max_steps /\ ~c.halted
            THEN Some(ErrorReturn("StepLimitExceeded", c, io, steps, instr,
                                  <<>>, UntracedOptions))
            ELSE Some(RunResult("ok", io.output, steps, get_state(c), <<>>,
                                <<>>, None)),
          escaped |-> None]
    ELSE IF c.pc \notin DOMAIN prog.instructions
    THEN [result |-> Some(ErrorReturn("CASMRuntimeError", c, io, steps, instr,
                                      <<>>, UntracedOptions)),
          escaped |-> None]
    ELSE LET fetched == prog.instructions[c.pc]
             out == execute_instruction(fetched, c, m, reset_io_codes(io),
                                        input_text)
         IN  IF out.exc = None
             THEN run_untraced(prog,
                      [out.cpu EXCEPT !.pc = next_pc(out.new_pc, c.pc)],
                      out.mem, out.io, steps + 1, Some(fetched))
             ELSE IF IsCASMError(Val(out.exc))
             THEN [result |-> Some(ErrorReturn(Val(out.exc), out.cpu, out.io,
                                       steps, Some(fetched), <<>>,
                                       UntracedOptions)),
                   escaped |-> None]
             ELSE [result |-> None, escaped |-> out.exc]

\* run_program, lines 104-226, with tracing off: [result, escaped]
UntracedRun ==
    LET c == cpu_init(UntracedOptions.word_bits, UntracedOptions.signed)
        m == memory_init(UntracedOptions.memory_size, UntracedOptions.word_bits,
                         UntracedOptions.signed, UntracedOptions.initial_memory)
        parsed == ParseTable[program_text, UntracedOptions.start_address]
    IN  IF parsed.err # None
        THEN IF IsCASMError(Val(parsed.err).type)
             THEN [result |-> Some(RunResult("error", <<>>, 0, get_state(c),
                                     <<>>, <<>>,
                                     Some(ErrorInfo(Val(parsed.err).type, 0, 0,
                                            Val(parsed.err).source_line_no)))),
                   escaped |-> None]
             ELSE [result |-> None, escaped |-> Some(Val(parsed.err).type)]
        ELSE LET prog == Val(parsed.program)
                 mg == merge_initial_memory(prog, 1, m, <<>>)
             IN  IF mg.exc # None THEN [result |-> None, escaped |-> mg.exc]
                 ELSE run_untraced(prog, [c EXCEPT !.pc = prog.start_address],
                                   mg.m, io_init, 0, None)

\* what of a result the trace options are not to influence
Outcomes(r) ==
    [status |-> r.status, output_text |-> r.output_text,
     steps_executed |-> r.steps_executed, final_state |-> r.final_state,
     error |-> r.error]

C40_SameAsUntraced(u) ==
    /\ escaped = u.escaped
    /\ (result = None) <=> (u.result = None)
    /\ Returned
       => /\ Outcomes(Res) = Outcomes(Val(u.result))
          /\ ~options.trace => Res.trace = <<>>

\* C40: tracing does not influence execution: whatever the trace switch,
\* the watch list and the include settings are, the run ends with the
\* status, output, step count, final state and error record of the run of
\* the same program, input and other options with tracing off; with
\* tracing off the trace is empty
C40_TracingDoesNotInfluence ==
    Done => C40_SameAsUntraced(UntracedRun)

\* a traced run with a watch list, IX and flag included, that wrote output
\* and ended in an error after three steps
C40_Witness ==
    /\ Done
    /\ Returned
    /\ options.trace
    /\ options.trace_include_ix
    /\ caller_options.trace_watch # <<>>
    /\ Len(Res.trace) = 3
    /\ Res.output_text # <<>>
    /\ Res.error # None
    /\ Outcomes(Res) = Outcomes(Val(UntracedRun.result))

====
